---- MODULE Spec2Model ----
(***************************************************************************)
(* The extraction pipeline of karl: App.Extract (pkg/app/app.go) fans out  *)
(* one task per input URL on an errgroup with a limit; Manager.Extract     *)
(* (pkg/service/service.go) collects the video results of the matching     *)
(* service and starts one task per video result ON THE SAME GROUP; each    *)
(* video task extracts variants per reference, fingerprints the            *)
(* deduplicated variants and accumulates its outcome on the shared result. *)
(***************************************************************************)
EXTENDS Integers, Sequences, FiniteSets, Bags, TLC

\* ---------------------------------------------------------------- bounds
MaxURLs == 2
MaxLimit == 3
MaxVideos == 2
MaxRefs == 2
MaxSegs == 2
MaxReps == 3
MaxS == 2
MaxRegs == 3
MaxReqs == 3

\* ---------------------------------------------------------------- domains
URLs == 1..MaxURLs
\* a video result: the URL whose service sent it and its position among the
\* results of that URL
Vids == URLs \X (1..MaxVideos)

\* model.Reference.Format as the services set it
Formats == {"dash", "hls"}

\* the --format flag of the extract command
FormatFilters == {"dash", "hls", "both"}

\* model.VideoResult.References: the Format of each reference, in order
ReferenceLists == UNION {[1..n -> Formats] : n \in 0..MaxRefs}

\* model.VideoResult: either an error or a video with its references
VideoResults ==
    {[Err |-> TRUE, References |-> <<>>]}
        \cup {[Err |-> FALSE, References |-> rs] : rs \in ReferenceLists}

\* what one successful ExtractVariants call may return: the IDs of its variants
VariantLists == {<<>>, <<"a">>, <<"a", "b">>}

\* the segment URLs of one variant in explicit addressing mode: URLs[i] is the
\* media template with $Number$ replaced by i
Segs == 1..MaxSegs

\* the S elements of a SegmentTimeline, reduced to their repeat count r; the
\* duration d of an element is taken from its position
Timelines ==
    UNION {[1..n -> 0..1] : n \in 0..MaxSegs}

\* what one HEAD request may come back with: a response with a success or a
\* non-success status and its Content-Length (-1 when the server sent none),
\* or no response at all (transport error, expiry of the per-attempt deadline)
ResponseKinds == {"success", "nolength", "toolarge", "nonsuccess", "neterr", "deadline"}

VARIABLES
    numURLs,      \* len(urls) of App.Extract
    limit,        \* runtime.NumCPU(), the limit of the top-level errgroup g
    format,       \* the format filter
    signal,       \* a process signal has reached ShutdownHandler
    ctxErr,       \* ctx.Err() != nil for the context of the errgroup g
    sem,          \* tokens held in g.sem: goroutines of g started and not returned
    appPc,        \* App.Extract: "loop", "wait", "done"
    nextURL,      \* the loop index i of App.Extract (1-based)
    outputs,      \* the bag of records OutputHandler has received from outputChan
    upc,          \* per-URL task: "idle","match","collect","range","go","wgwait","send","done"
    yielded,      \* video results the service has sent on its channel
    closed,       \* the service's results channel has been closed
    results,      \* the slice VideoExtract collects, not yet ranged over
    extractErr,   \* Manager.Extract returns a non-nil error
    wg,           \* the sync.WaitGroup counter of one Manager.Extract call
    pMu,          \* pMu of one Manager.Extract call: the video task holding it (0: unlocked)
    Videos,       \* result.Videos
    NumFailed,    \* result.NumFailed
    FailedErrors, \* result.FailedErrors: the video each error is about
    vpc,          \* per-video task position
    pending,      \* reference tasks of the video still running
    variants,     \* the slice variants of the video task
    gErr,         \* the first error of the video task's current errgroup
    fps,          \* the variants fingerprint tasks were started for
    left,         \* indices into fps of the fingerprint tasks still running
    vid,          \* vid.Variants
    cause,        \* the step whose error the task is recording
    tmpNF,        \* NumFailed as loaded by result.NumFailed++
    tmpFE,        \* FailedErrors as loaded by append
    info,         \* fingerprintExplicit: the ExplicitAddressingInfo of the variant
    fp,           \* fingerprintExplicit: the model.Fingerprint under construction
    fePc,         \* fingerprintExplicit: "idle", "go", "wait", "returned"
    feNext,       \* the loop index i of fingerprintExplicit (1-based)
    parentErr,    \* the context handed to fingerprintExplicit has been cancelled
    feCtxErr,     \* ctx.Err() != nil for the context of the segment errgroup
    feErr,        \* the first error of the segment errgroup ("" when nil)
    segPc,        \* per-segment task: "idle","head","got","sleep","ok","failed","cancelled"
    try,          \* the retry counter of the segment task
    heads,        \* calls of fetchContentLength the segment task has made
    resp,         \* what the last HEAD request of the segment task came back with
    slot,         \* variant.Fingerprint has been set by Manager.fingerprint
    mformat,      \* the format of the manifest: "dash" or "hls"
    group,        \* variantGroup.variants: the variants added under each key
    durations,    \* variantGroup.durations
    maxDuration,  \* variantGroup.maxDuration
    adds,         \* variants extracted from the manifest so far
    mvs,          \* the slice vs that ExtractVariants returns
    mfPc,         \* "idle", "extract", "fingerprint", "returned"
    fvLeft,       \* indices into vs of the fingerprint tasks still running
    fvErr,        \* the group of fingerprint tasks has an error
    emitted,      \* vid.Variants when the variants are fingerprinted by Manager.Extract
    resVariants,  \* result.Variants of Manager.Fingerprint
    resErr,       \* Manager.Fingerprint returns a non-nil error
    command,      \* the command of the command line
    mainPc,       \* main: "command", "deferred", "wgwait", "exit"
    outClosed,    \* outputChan has been closed
    handlerPc,    \* OutputHandler: "ranging", "exited"
    panicked,     \* a task has sent on the closed outputChan
    rawFormats,   \* svt: the format strings of videoResponse.VideoReferences
    refFilter,    \* the format filter Manager.Extract is called with
    refList,      \* the references of the video result
    refPc,        \* the video task: "response", "refs", "failed", "ok"
    refLeft,      \* indices of the reference tasks still running
    refCalls,     \* indices of the references extractVariants was called for
    refErrs,      \* indices of the references whose task returned an error
    media,        \* SegmentTemplate.Media, as a sequence of pieces
    startNumber,  \* SegmentTemplate.StartNumber: <<>> when nil, else <<n>>
    timeline,     \* SegmentTimeline.S: the entries [t, d, r]
    parsed,       \* what parseMPDExplicitAddressingInfo returned
    parsePc,      \* "idle", "call", "returned"
    clients,      \* Manager.clients: the capabilities of each registered id
    regOrder,     \* the registered ids in the order of their registration
    indexes,      \* the four capability maps of the Manager: the ids in each
    lastOp,       \* the operation of the Manager since the last registration, and its outcome
    fatal,        \* register has ended the process with log.Fatalf
    limited,      \* the host of the requests has a rate limiter
    bucket,       \* tokens the limiter can grant now
    reqCtx,       \* per request: "live", "cancelled", "deadline"
    reqPc,        \* per request: "new", "wait", "forward", "sent"
    holds,        \* the requests that acquired a token
    manifestURL,  \* per run: the URL u the manifest was fetched from
    periodLog,    \* the periods of the MPD the loop has taken so far
    vg,           \* per run: the variantGroup of extractMPDVariants
    mergeResult,  \* per run: what group.merge returned
    playlist,     \* the segments of the media playlist
    hlsVariant,   \* what extractM3U8Variant returned for the media playlist
    shutdownPc,   \* ShutdownHandler: "select", "exited"
    prodPlan,     \* the producer: whether it works inline, the fan-out of that work and of each goroutine it starts
    prodPc,       \* the producer goroutine: "idle", "spawn", "own", "wait", "exited"
    taskPc,       \* per started goroutine: "none", "run", "wait", "done"
    kidPc,        \* per goroutine started by a goroutine: "none", "send", "done"
    topWg,        \* the WaitGroup of the producer
    kidWg,        \* per started goroutine: its own WaitGroup
    resultsClosed, \* the results channel has been closed
    received,     \* the results VideoExtract has appended, as a bag
    consumerPc,   \* VideoExtract: "ranging", "returned"
    sendPanic,    \* a goroutine has sent on the closed results channel
    pdPc          \* "idle", "periods", "period", "merged", "empty", "playlist", "returned", "error"

appVars == <<numURLs, limit, format, signal, ctxErr, sem, appPc, nextURL, outputs>>
urlVars == <<upc, yielded, closed, results, extractErr, wg, pMu, Videos, NumFailed, FailedErrors>>
vidVars == <<vpc, pending, variants, gErr, fps, left, vid, cause, tmpNF, tmpFE>>
explicitVars == <<info, fp, fePc, feNext, parentErr, feCtxErr, feErr, segPc, try, heads, resp, slot>>

\* the state of the components that run outside the extraction pipeline
manifestVars == <<mformat, group, durations, maxDuration, adds, mvs, mfPc, fvLeft, fvErr,
                  emitted, resVariants, resErr>>

mainVars == <<command, mainPc, outClosed, handlerPc, panicked>>

refVars == <<rawFormats, refFilter, refList, refPc, refLeft, refCalls, refErrs>>

parseVars == <<media, startNumber, timeline, parsed, parsePc>>
registryVars == <<clients, regOrder, indexes, lastOp, fatal>>
transportVars == <<limited, bucket, reqCtx, reqPc, holds>>
periodVars == <<manifestURL, periodLog, vg, mergeResult, playlist, hlsVariant, pdPc>>

\* the state of the variant extraction and of the video producers
producerVars == <<prodPlan, prodPc, taskPc, kidPc, topWg, kidWg, resultsClosed, received,
                  consumerPc, sendPanic>>

lateVars == <<periodVars, shutdownPc, producerVars>>

\* the state of the parts of the program that are studied on their own
toolVars == <<refVars, parseVars, registryVars, transportVars, lateVars>>

\* the state of main around the running command, and of the parts studied on
\* their own
auxVars == <<mainVars, toolVars>>

componentVars == <<explicitVars, manifestVars, auxVars>>

\* main is running its command, with OutputHandler ranging over outputChan
MainIdle ==
    /\ command = "extract"
    /\ mainPc = "command"
    /\ outClosed = FALSE
    /\ handlerPc = "ranging"
    /\ panicked = FALSE

\* no video response is being processed
RefIdle ==
    /\ rawFormats = <<>>
    /\ refFilter = "both"
    /\ refList = <<>>
    /\ refPc = "ok"
    /\ refLeft = {}
    /\ refCalls = {}
    /\ refErrs = {}

\* the capabilities a client may implement
Capabilities == {"urls", "video", "variants", "fingerprint"}

\* the ids of the services
ServiceIDs == {"default", "amazon", "max", "svt"}

\* no operation of the Manager has been requested
NoOp == [op |-> "none", arg |-> <<>>, err |-> FALSE, invoked |-> ""]

\* the requests of one host
Requests == 1..MaxReqs

\* no segment template is being materialized, the Manager is empty, no request
\* is under way
ParseIdle ==
    /\ media = <<>>
    /\ startNumber = <<>>
    /\ timeline = <<>>
    /\ parsed = [err |-> "", URLs |-> <<>>, SegmentDurations |-> <<>>]
    /\ parsePc = "idle"

RegistryIdle ==
    /\ clients = [id \in ServiceIDs |-> [present |-> FALSE, caps |-> {}]]
    /\ regOrder = <<>>
    /\ indexes = [c \in Capabilities |-> {}]
    /\ lastOp = NoOp
    /\ fatal = FALSE

TransportIdle ==
    /\ limited = FALSE
    /\ bucket = 0
    /\ reqCtx = [r \in Requests |-> "live"]
    /\ reqPc = [r \in Requests |-> "sent"]
    /\ holds = {}

\* the two runs of one extraction that are compared
Runs == {1, 2}

\* newVariantGroup
newVariantGroup == [variants |-> <<>>, durations |-> <<>>, maxDuration |-> 0]

\* the zero model.Variant
NoVariant ==
    [err |-> "", AddressingMode |-> "", URLs |-> <<>>, SegmentDurations |-> <<>>,
     SegmentSizes |-> <<>>, FingerprintDurations |-> <<>>, Timescale |-> 0]

\* no manifest is being read period by period
PeriodIdle ==
    /\ manifestURL = [run \in Runs |-> <<>>]
    /\ periodLog = <<>>
    /\ vg = [run \in Runs |-> newVariantGroup]
    /\ mergeResult = [run \in Runs |-> <<>>]
    /\ playlist = <<>>
    /\ hlsVariant = NoVariant
    /\ pdPc = "idle"

\* ShutdownHandler waits for a signal or for the end of the context
ShutdownIdle == shutdownPc = "select"

MaxSenders == 2
MaxKids == 2

\* no video producer is running
ProducerIdle ==
    /\ prodPlan = [own |-> FALSE, inline |-> 0, fanout |-> <<>>]
    /\ prodPc = "idle"
    /\ taskPc = [i \in 0..MaxSenders |-> "none"]
    /\ kidPc = [i \in 0..MaxSenders |-> [j \in 1..MaxKids |-> "none"]]
    /\ topWg = 0
    /\ kidWg = [i \in 0..MaxSenders |-> 0]
    /\ resultsClosed = FALSE
    /\ received = EmptyBag
    /\ consumerPc = "returned"
    /\ sendPanic = FALSE

LateIdle == PeriodIdle /\ ShutdownIdle /\ ProducerIdle

ToolIdle == RefIdle /\ ParseIdle /\ RegistryIdle /\ TransportIdle /\ LateIdle

AuxIdle == MainIdle /\ ToolIdle

\* the keys variantGroup files variants under: the index URL of an indexed
\* variant, the template URL of an explicit one
Keys == {"k1", "k2"}

\* no manifest is being processed
ManifestIdle ==
    /\ mformat = "dash"
    /\ group = [k \in Keys |-> <<>>]
    /\ durations = [k \in Keys |-> 0]
    /\ maxDuration = 0
    /\ adds = 0
    /\ mvs = <<>>
    /\ mfPc = "idle"
    /\ fvLeft = {}
    /\ fvErr = FALSE
    /\ emitted = <<>>
    /\ resVariants = <<>>
    /\ resErr = FALSE

vars == <<appVars, urlVars, vidVars, componentVars>>

\* no response received
NoResponse == [kind |-> "none", length |-> 0]

\* the ExplicitAddressingInfo of a variant without segments
NoInfo == [URLs |-> <<>>, SegmentDurations |-> <<>>, Timescale |-> 0]

\* the zero model.Fingerprint
NoFingerprint == [SegmentSizes |-> <<>>, SegmentDurations |-> <<>>, Timescale |-> 0]

\* no explicit-mode fingerprint is being computed
ExplicitIdle ==
    /\ info = NoInfo
    /\ fp = NoFingerprint
    /\ fePc = "idle"
    /\ feNext = 1
    /\ parentErr = FALSE
    /\ feCtxErr = FALSE
    /\ feErr = ""
    /\ segPc = [i \in Segs |-> "idle"]
    /\ try = [i \in Segs |-> 0]
    /\ heads = [i \in Segs |-> 0]
    /\ resp = [i \in Segs |-> NoResponse]
    /\ slot = FALSE

Init ==
    /\ numURLs \in 1..MaxURLs
    /\ limit \in 1..MaxLimit
    /\ format \in FormatFilters
    /\ signal = FALSE
    /\ ctxErr = FALSE
    /\ sem = 0
    /\ appPc = "loop"
    /\ nextURL = 1
    /\ outputs = EmptyBag
    /\ upc = [u \in URLs |-> "idle"]
    /\ yielded = [u \in URLs |-> 0]
    /\ closed = [u \in URLs |-> FALSE]
    /\ results = [u \in URLs |-> <<>>]
    /\ extractErr = [u \in URLs |-> FALSE]
    /\ wg = [u \in URLs |-> 0]
    /\ pMu = [u \in URLs |-> 0]
    /\ Videos = [u \in URLs |-> <<>>]
    /\ NumFailed = [u \in URLs |-> 0]
    /\ FailedErrors = [u \in URLs |-> <<>>]
    /\ vpc = [v \in Vids |-> "none"]
    /\ pending = [v \in Vids |-> 0]
    /\ variants = [v \in Vids |-> <<>>]
    /\ gErr = [v \in Vids |-> FALSE]
    /\ fps = [v \in Vids |-> <<>>]
    /\ left = [v \in Vids |-> {}]
    /\ vid = [v \in Vids |-> <<>>]
    /\ cause = [v \in Vids |-> ""]
    /\ tmpNF = [v \in Vids |-> 0]
    /\ tmpFE = [v \in Vids |-> <<>>]
    /\ ExplicitIdle
    /\ ManifestIdle
    /\ AuxIdle

\* ---------------------------------------------------------------- helpers

\* SetLimit left out: Go never blocks
GoUnlimited == TRUE

\* errgroup.Group.Go under SetLimit(limit): the caller blocks on g.sem <- token{}
\* until fewer than limit goroutines of the group are active
GoAllowed == sem < limit

\* the task hands Manager.Extract's error to the errgroup
ReturnedErrorPropagated(err) == err

\* the error a per-URL task returns to the errgroup: always nil
ReturnedError(err) == FALSE

\* VideoExtract hands over as soon as a first result has been received
ReturnsOnFirstResult(u) == results[u] # <<>> \/ closed[u]

\* VideoExtract ranges over the service's channel and returns the collected
\* slice only when the channel has been closed
VideoExtractReturned(u) == closed[u]

\* Manager.Extract fails as soon as one video has failed
ExtractFailsOnAnyFailure(u) == NumFailed[u] > 0

\* Manager.Extract fails as a whole when no video was appended
ExtractFails(u) == Len(Videos[u]) = 0

\* the format filter of the reference loop: a reference is skipped when
\* format != "both" && ref.Format != format
Skipped(f) == format # "both" /\ f # format

Passes(f) == ~Skipped(f)

\* g.Wait() of the reference group returned a non-nil error
VariantsFailed(v) == gErr[v]

\* the error of the fingerprint group is dropped
FingerprintErrorIgnored(v) == FALSE

\* g.Wait() of the fingerprint group returned a non-nil error
FingerprintFailed(v) == gErr[v]

\* the seen-map loop: the first variant of each ID, in slice order
RECURSIVE DedupeFrom(_, _)
DedupeFrom(vs, seen) ==
    IF vs = <<>> THEN <<>>
    ELSE IF Head(vs) \in seen THEN DedupeFrom(Tail(vs), seen)
    ELSE <<Head(vs)>> \o DedupeFrom(Tail(vs), seen \cup {Head(vs)})

\* the seen map left out: every variant is kept
NoDedupe(vs) == vs

\* the variants a fingerprint task is started for, as the seen-map loop selects them
Dedupe(vs) == DedupeFrom(vs, {})

\* the decimal digits of n >= 0, most significant first
RECURSIVE Decimal(_)
Decimal(n) ==
    LET digit == <<"0", "1", "2", "3", "4", "5", "6", "7", "8", "9">>[(n % 10) + 1]
    IN IF n < 10 THEN <<digit>> ELSE Decimal(n \div 10) \o <<digit>>

\* fmt.Sprintf("_%05d", i): an underscore and the decimal digits of i, padded
\* with zeros on the left to at least five characters
Sprintf05(i) ==
    LET d == Decimal(i)
    IN <<"_">> \o [k \in 1..(IF Len(d) < 5 THEN 5 - Len(d) ELSE 0) |-> "0"] \o d

\* the suffix counts the records sent so far
SuffixByCompletion(u) == BagCardinality(outputs)

\* the loop variable i of App.Extract that the task of the u-th URL captured
SuffixIndex(u) == u - 1

\* the output record of the input URL at position u
Output(u) ==
    [Result |-> IF extractErr[u] THEN 0 ELSE u,
     Prefix |-> "extract_",
     Suffix |-> Sprintf05(SuffixIndex(u)),
     Error  |-> extractErr[u]]

RECURSIVE SumOver(_, _)
SumOver(f, S) ==
    IF S = {} THEN 0
    ELSE LET x == CHOOSE y \in S : TRUE IN f[x] + SumOver(f, S \ {x})

\* video results the services have sent so far, over all URLs
Produced == SumOver(yielded, URLs)

\* ---------------------------------------------------------------- App.Extract

\* g.Go(func() error {...}) for the next input URL
AppGo ==
    /\ appPc = "loop"
    /\ nextURL <= numURLs
    /\ GoAllowed
    /\ sem' = sem + 1
    /\ upc' = [upc EXCEPT ![nextURL] = "match"]
    /\ nextURL' = nextURL + 1
    /\ appPc' = IF nextURL = numURLs THEN "wait" ELSE "loop"
    /\ UNCHANGED <<numURLs, limit, format, signal, ctxErr, outputs>>
    /\ UNCHANGED <<yielded, closed, results, extractErr, wg, pMu, Videos, NumFailed, FailedErrors>>
    /\ UNCHANGED vidVars
    /\ UNCHANGED componentVars

\* g.Wait(): every goroutine of the group has returned; Wait cancels g's context
AppWait ==
    /\ appPc = "wait"
    /\ sem = 0
    /\ appPc' = "done"
    /\ ctxErr' = TRUE
    /\ UNCHANGED <<numURLs, limit, format, signal, sem, nextURL, outputs>>
    /\ UNCHANGED <<urlVars, vidVars>>
    /\ UNCHANGED componentVars

\* ShutdownHandler: a signal arrives and cancel() is called
Signal ==
    /\ appPc # "done"
    /\ ~signal
    /\ signal' = TRUE
    /\ ctxErr' = TRUE
    /\ UNCHANGED <<numURLs, limit, format, sem, appPc, nextURL, outputs>>
    /\ UNCHANGED <<urlVars, vidVars>>
    /\ UNCHANGED componentVars

\* ---------------------------------------------------------------- Manager.Extract

\* m.matchURL(url): some registered video extractor accepts the URL, or none
MatchURL(u) ==
    /\ upc[u] = "match"
    /\ \E ok \in BOOLEAN :
        /\ upc' = [upc EXCEPT ![u] = IF ok THEN "collect" ELSE "send"]
        /\ extractErr' = [extractErr EXCEPT ![u] = ~ok]
    /\ UNCHANGED <<appVars, vidVars>>
    /\ UNCHANGED <<yielded, closed, results, wg, pMu, Videos, NumFailed, FailedErrors>>
    /\ UNCHANGED componentVars

\* the service's producer sends one video result on the unbuffered channel and
\* VideoExtract, ranging over it, appends the result to its slice
SvcSend(u) ==
    /\ upc[u] = "collect"
    /\ ~closed[u]
    /\ Produced < MaxVideos
    /\ yielded' = [yielded EXCEPT ![u] = @ + 1]
    /\ results' = [results EXCEPT ![u] = Append(@, <<u, yielded[u] + 1>>)]
    /\ UNCHANGED <<appVars, vidVars>>
    /\ UNCHANGED <<upc, closed, extractErr, wg, pMu, Videos, NumFailed, FailedErrors>>
    /\ UNCHANGED componentVars

\* the producer goroutine returns: defer close(results)
SvcClose(u) ==
    /\ upc[u] = "collect"
    /\ ~closed[u]
    /\ closed' = [closed EXCEPT ![u] = TRUE]
    /\ UNCHANGED <<appVars, vidVars>>
    /\ UNCHANGED <<upc, yielded, results, extractErr, wg, pMu, Videos, NumFailed, FailedErrors>>
    /\ UNCHANGED componentVars

\* where the loop over the video results stands when rs is left to range over:
\* at the head of the next iteration, or past the loop at wg.Wait()
LoopAt(rs) == IF rs = <<>> THEN "wgwait" ELSE "range"

\* VideoExtract returns its slice to Manager.Extract, which starts to range over it
VideoExtractReturn(u) ==
    /\ upc[u] = "collect"
    /\ VideoExtractReturned(u)
    /\ upc' = [upc EXCEPT ![u] = LoopAt(results[u])]
    /\ UNCHANGED <<appVars, vidVars>>
    /\ UNCHANGED <<yielded, closed, results, extractErr, wg, pMu, Videos, NumFailed, FailedErrors>>
    /\ UNCHANGED componentVars

\* the head of one iteration: break when ctx.Err() != nil, else wg.Add(1)
Range(u) ==
    /\ upc[u] = "range"
    /\ IF ctxErr
       THEN /\ upc' = [upc EXCEPT ![u] = "wgwait"]
            /\ wg' = wg
       ELSE /\ upc' = [upc EXCEPT ![u] = "go"]
            /\ wg' = [wg EXCEPT ![u] = @ + 1]
    /\ UNCHANGED <<appVars, vidVars>>
    /\ UNCHANGED <<yielded, closed, results, extractErr, pMu, Videos, NumFailed, FailedErrors>>
    /\ UNCHANGED componentVars

\* pg.Go(func() error {...}): blocks for a token of the shared group, then
\* starts the per-video task on the result r of this iteration
PgGo(u) ==
    /\ upc[u] = "go"
    /\ GoAllowed
    /\ sem' = sem + 1
    /\ vpc' = [vpc EXCEPT ![Head(results[u])] = "start"]
    /\ results' = [results EXCEPT ![u] = Tail(@)]
    /\ upc' = [upc EXCEPT ![u] = LoopAt(Tail(results[u]))]
    /\ UNCHANGED <<numURLs, limit, format, signal, ctxErr, appPc, nextURL, outputs>>
    /\ UNCHANGED <<yielded, closed, extractErr, wg, pMu, Videos, NumFailed, FailedErrors>>
    /\ UNCHANGED <<pending, variants, gErr, fps, left, vid, cause, tmpNF, tmpFE>>
    /\ UNCHANGED componentVars

\* wg.Wait() and the final check of len(result.Videos)
WgWait(u) ==
    /\ upc[u] = "wgwait"
    /\ wg[u] = 0
    /\ extractErr' = [extractErr EXCEPT ![u] = ExtractFails(u)]
    /\ upc' = [upc EXCEPT ![u] = "send"]
    /\ UNCHANGED <<appVars, vidVars>>
    /\ UNCHANGED <<yielded, closed, results, wg, pMu, Videos, NumFailed, FailedErrors>>
    /\ UNCHANGED componentVars

\* a.outputChan <- output{...}; return nil: the record is handed to
\* OutputHandler (a send on the closed channel panics instead), the task gives
\* its token back, and the locals of the finished Manager.Extract call
\* (result, its video tasks) are gone
SendOutput(u) ==
    /\ upc[u] = "send"
    /\ outputs' = IF outClosed THEN outputs ELSE outputs (+) SetToBag({Output(u)})
    /\ panicked' = (panicked \/ outClosed)
    /\ ctxErr' = (ctxErr \/ ReturnedError(extractErr[u]))
    /\ sem' = sem - 1
    /\ upc' = [upc EXCEPT ![u] = "done"]
    /\ Videos' = [Videos EXCEPT ![u] = <<>>]
    /\ NumFailed' = [NumFailed EXCEPT ![u] = 0]
    /\ FailedErrors' = [FailedErrors EXCEPT ![u] = <<>>]
    /\ vpc' = [v \in Vids |-> IF v[1] = u /\ vpc[v] # "none" THEN "gone" ELSE vpc[v]]
    /\ UNCHANGED <<numURLs, limit, format, signal, appPc, nextURL>>
    /\ UNCHANGED <<yielded, closed, results, extractErr, wg, pMu>>
    /\ UNCHANGED <<pending, variants, gErr, fps, left, vid, cause, tmpNF, tmpFE>>
    /\ UNCHANGED <<explicitVars, manifestVars, toolVars>>
    /\ UNCHANGED <<command, mainPc, outClosed, handlerPc>>

\* ---------------------------------------------------------------- the per-video task

\* the task returns nil: defer wg.Done() runs and the token goes back to the
\* group; the locals of the closure die with it
Finished(v, final) ==
    /\ vpc' = [vpc EXCEPT ![v] = final]
    /\ sem' = sem - 1
    /\ wg' = [wg EXCEPT ![v[1]] = @ - 1]
    /\ fps' = [fps EXCEPT ![v] = <<>>]
    /\ vid' = [vid EXCEPT ![v] = <<>>]
    /\ gErr' = [gErr EXCEPT ![v] = FALSE]
    /\ cause' = [cause EXCEPT ![v] = ""]
    /\ UNCHANGED <<numURLs, limit, format, signal, ctxErr, appPc, nextURL, outputs>>
    /\ UNCHANGED <<upc, yielded, closed, results, extractErr>>
    /\ UNCHANGED <<pending, variants, left, tmpNF>>
    /\ UNCHANGED componentVars

\* the task starts on its video result r (whatever the service put into it):
\* a result carrying an error is recorded as failed; otherwise
\* errgroup.WithContext and one g.Go per reference that passes the format filter
VideoStart(v) ==
    /\ vpc[v] = "start"
    /\ \E res \in VideoResults :
        IF res.Err
        THEN /\ vpc' = [vpc EXCEPT ![v] = "incr"]
             /\ cause' = [cause EXCEPT ![v] = "video extract"]
             /\ pending' = pending
        ELSE /\ vpc' = [vpc EXCEPT ![v] = "refs"]
             /\ cause' = cause
             /\ pending' = [pending EXCEPT ![v] = Len(SelectSeq(res.References, Passes))]
    /\ UNCHANGED <<appVars, urlVars>>
    /\ UNCHANGED <<variants, gErr, fps, left, vid, tmpNF, tmpFE>>
    /\ UNCHANGED componentVars

\* a reference task: extractVariants succeeded and its variants are appended
\* to variants under mu
RefOk(v) ==
    /\ vpc[v] = "refs"
    /\ pending[v] > 0
    /\ \E vs \in VariantLists : variants' = [variants EXCEPT ![v] = @ \o vs]
    /\ pending' = [pending EXCEPT ![v] = @ - 1]
    /\ UNCHANGED <<appVars, urlVars>>
    /\ UNCHANGED <<vpc, gErr, fps, left, vid, cause, tmpNF, tmpFE>>
    /\ UNCHANGED componentVars

\* a reference task: extractVariants failed (or the group's context was
\* cancelled); the errgroup keeps the first error
RefErr(v) ==
    /\ vpc[v] = "refs"
    /\ pending[v] > 0
    /\ gErr' = [gErr EXCEPT ![v] = TRUE]
    /\ pending' = [pending EXCEPT ![v] = @ - 1]
    /\ UNCHANGED <<appVars, urlVars>>
    /\ UNCHANGED <<vpc, variants, fps, left, vid, cause, tmpNF, tmpFE>>
    /\ UNCHANGED componentVars

\* g.Wait() of the reference group: on error the video is recorded as failed;
\* otherwise the variants are deduplicated by ID and one fingerprint task is
\* started per kept variant on a fresh errgroup
RefsWait(v) ==
    /\ vpc[v] = "refs"
    /\ pending[v] = 0
    /\ IF VariantsFailed(v)
       THEN /\ vpc' = [vpc EXCEPT ![v] = "incr"]
            /\ cause' = [cause EXCEPT ![v] = "extract variants"]
            /\ fps' = fps
            /\ left' = left
       ELSE /\ vpc' = [vpc EXCEPT ![v] = "fps"]
            /\ cause' = cause
            /\ fps' = [fps EXCEPT ![v] = Dedupe(variants[v])]
            /\ left' = [left EXCEPT ![v] = 1..Len(Dedupe(variants[v]))]
    /\ gErr' = [gErr EXCEPT ![v] = FALSE]
    /\ variants' = [variants EXCEPT ![v] = <<>>]
    /\ UNCHANGED <<appVars, urlVars>>
    /\ UNCHANGED <<pending, vid, tmpNF, tmpFE>>
    /\ UNCHANGED componentVars

\* a fingerprint task: m.fingerprint succeeded, the variant (its Fingerprint
\* set) is appended to vid.Variants under mu
FpOk(v) ==
    /\ vpc[v] = "fps"
    /\ \E i \in left[v] :
        /\ vid' = [vid EXCEPT ![v] = Append(@, fps[v][i])]
        /\ left' = [left EXCEPT ![v] = @ \ {i}]
    /\ UNCHANGED <<appVars, urlVars>>
    /\ UNCHANGED <<vpc, pending, variants, gErr, fps, cause, tmpNF, tmpFE>>
    /\ UNCHANGED componentVars

\* a fingerprint task: m.fingerprint failed (or the group's context was cancelled)
FpErr(v) ==
    /\ vpc[v] = "fps"
    /\ \E i \in left[v] : left' = [left EXCEPT ![v] = @ \ {i}]
    /\ gErr' = [gErr EXCEPT ![v] = TRUE]
    /\ UNCHANGED <<appVars, urlVars>>
    /\ UNCHANGED <<vpc, pending, variants, fps, vid, cause, tmpNF, tmpFE>>
    /\ UNCHANGED componentVars

\* g.Wait() of the fingerprint group
FpsWait(v) ==
    /\ vpc[v] = "fps"
    /\ left[v] = {}
    /\ IF FingerprintFailed(v)
       THEN /\ vpc' = [vpc EXCEPT ![v] = "incr"]
            /\ cause' = [cause EXCEPT ![v] = "fingerprint"]
       ELSE /\ vpc' = [vpc EXCEPT ![v] = "lock"]
            /\ cause' = cause
    /\ UNCHANGED <<appVars, urlVars>>
    /\ UNCHANGED <<pending, variants, gErr, fps, left, vid, tmpNF, tmpFE>>
    /\ UNCHANGED componentVars

\* result.NumFailed++ without a lock: the load
LoadNumFailed(v) ==
    /\ vpc[v] = "incr"
    /\ tmpNF' = [tmpNF EXCEPT ![v] = NumFailed[v[1]]]
    /\ vpc' = [vpc EXCEPT ![v] = "store"]
    /\ UNCHANGED <<appVars, urlVars>>
    /\ UNCHANGED <<pending, variants, gErr, fps, left, vid, cause, tmpFE>>
    /\ UNCHANGED componentVars

\* result.NumFailed++ without a lock: the store
StoreNumFailed(v) ==
    /\ vpc[v] = "store"
    /\ NumFailed' = [NumFailed EXCEPT ![v[1]] = tmpNF[v] + 1]
    /\ tmpNF' = [tmpNF EXCEPT ![v] = 0]
    /\ vpc' = [vpc EXCEPT ![v] = "errs"]
    /\ UNCHANGED appVars
    /\ UNCHANGED <<upc, yielded, closed, results, extractErr, wg, pMu, Videos, FailedErrors>>
    /\ UNCHANGED <<pending, variants, gErr, fps, left, vid, cause, tmpFE>>
    /\ UNCHANGED componentVars

\* result.FailedErrors = append(result.FailedErrors, err) without a lock: the
\* slice header is loaded
LoadFailedErrors(v) ==
    /\ vpc[v] = "errs"
    /\ tmpFE' = [tmpFE EXCEPT ![v] = FailedErrors[v[1]]]
    /\ vpc' = [vpc EXCEPT ![v] = "append"]
    /\ UNCHANGED <<appVars, urlVars>>
    /\ UNCHANGED <<pending, variants, gErr, fps, left, vid, cause, tmpNF>>
    /\ UNCHANGED componentVars

\* ... and the grown slice is stored; the task returns nil
StoreFailedErrors(v) ==
    /\ vpc[v] = "append"
    /\ FailedErrors' = [FailedErrors EXCEPT ![v[1]] =
                            Append(tmpFE[v], v)]
    /\ tmpFE' = [tmpFE EXCEPT ![v] = <<>>]
    /\ Finished(v, "failed")
    /\ UNCHANGED <<pMu, Videos, NumFailed>>

\* pMu.Lock()
Lock(v) ==
    /\ vpc[v] = "lock"
    /\ pMu[v[1]] = 0
    /\ pMu' = [pMu EXCEPT ![v[1]] = v[2]]
    /\ vpc' = [vpc EXCEPT ![v] = "locked"]
    /\ UNCHANGED appVars
    /\ UNCHANGED <<upc, yielded, closed, results, extractErr, wg, Videos, NumFailed, FailedErrors>>
    /\ UNCHANGED <<pending, variants, gErr, fps, left, vid, cause, tmpNF, tmpFE>>
    /\ UNCHANGED componentVars

\* result.Videos = append(result.Videos, vid); pMu.Unlock(); return nil
AppendVideo(v) ==
    /\ vpc[v] = "locked"
    /\ Videos' = [Videos EXCEPT ![v[1]] = Append(@, [ID |-> v, Variants |-> vid[v]])]
    /\ pMu' = [pMu EXCEPT ![v[1]] = 0]
    /\ Finished(v, "ok")
    /\ UNCHANGED <<NumFailed, FailedErrors, tmpFE>>

\* ---------------------------------------------------------------- specification

\* the steps of the program
Step ==
    \/ AppGo
    \/ AppWait
    \/ \E u \in URLs : MatchURL(u)
    \/ \E u \in URLs : SvcSend(u)
    \/ \E u \in URLs : SvcClose(u)
    \/ \E u \in URLs : VideoExtractReturn(u)
    \/ \E u \in URLs : Range(u)
    \/ \E u \in URLs : PgGo(u)
    \/ \E u \in URLs : WgWait(u)
    \/ \E u \in URLs : SendOutput(u)
    \/ \E v \in Vids : VideoStart(v)
    \/ \E v \in Vids : RefOk(v)
    \/ \E v \in Vids : RefErr(v)
    \/ \E v \in Vids : RefsWait(v)
    \/ \E v \in Vids : FpOk(v)
    \/ \E v \in Vids : FpErr(v)
    \/ \E v \in Vids : FpsWait(v)
    \/ \E v \in Vids : LoadNumFailed(v)
    \/ \E v \in Vids : StoreNumFailed(v)
    \/ \E v \in Vids : LoadFailedErrors(v)
    \/ \E v \in Vids : StoreFailedErrors(v)
    \/ \E v \in Vids : Lock(v)
    \/ \E v \in Vids : AppendVideo(v)

Next == Step \/ Signal

Spec == Init /\ [][Next]_vars

\* ---------------------------------------------------------------- derived state

\* per-URL tasks started and not yet returned
RunningURLTasks == {u \in URLs : upc[u] \notin {"idle", "done"}}

\* per-video tasks started and not yet returned
RunningVideoTasks == {v \in Vids : vpc[v] \notin {"none", "ok", "failed", "gone"}}

\* the records OutputHandler has received for input position i (0-based)
RecordsAt(i) == {rec \in BagToSet(outputs) : rec.Suffix = Sprintf05(i)}

NumRecordsAt(i) == SumOver([rec \in RecordsAt(i) |-> CopiesIn(rec, outputs)], RecordsAt(i))

\* the video results of u whose task ended in the failure path
FailedVideos(u) == {v \in Vids : v[1] = u /\ vpc[v] = "failed"}

\* Manager.Extract for u is past wg.Wait() on a matched URL and about to return
Extracted(u) == upc[u] = "send" /\ closed[u]

\* ---------------------------------------------------------------- C1

\* C1: App.Extract terminates: as long as App.Extract has not returned, some
\* task of the program can take a step (no task waits forever for a slot of
\* the shared task group).
C1_Terminates == appPc = "done" \/ ENABLED Step

\* ---------------------------------------------------------------- C2

\* C2: at every moment at most limit per-URL tasks are running, and while limit
\* tasks of the group are active App.Extract cannot start a further one.
C2_AtMostLimitRunning ==
    /\ Cardinality(RunningURLTasks) <= limit
    /\ sem >= limit => ~ENABLED AppGo

\* a further URL is waiting while limit per-URL tasks run
C2_Witness ==
    /\ appPc = "loop"
    /\ nextURL <= numURLs
    /\ Cardinality(RunningURLTasks) = limit

\* ---------------------------------------------------------------- C3

\* C3: no failure cancels the shared context (only a signal or the return of
\* g.Wait() does), a returned task has given its token back, and every per-URL
\* task that has returned has sent exactly one record, which carries the
\* URL's result or its error; when App.Extract returns there is exactly one
\* record per input URL.
C3_NoFailureAbortsBatch ==
    /\ ctxErr => (signal \/ appPc = "done")
    /\ sem = Cardinality(RunningURLTasks) + Cardinality(RunningVideoTasks)
    /\ \A u \in URLs :
        /\ NumRecordsAt(u - 1) = (IF upc[u] = "done" THEN 1 ELSE 0)
        /\ \A rec \in RecordsAt(u - 1) : rec.Result = (IF rec.Error THEN 0 ELSE u)
    /\ appPc = "done" => \A u \in 1..numURLs : NumRecordsAt(u - 1) = 1

\* App.Extract has returned from a batch in which one URL failed and another
\* one succeeded
C3_Witness ==
    /\ appPc = "done"
    /\ ~signal
    /\ \E u1, u2 \in 1..numURLs :
        /\ \E rec \in RecordsAt(u1 - 1) : rec.Error
        /\ \E rec \in RecordsAt(u2 - 1) : ~rec.Error

\* the videos appended to result.Videos of u
AppendedVideos(u) == {Videos[u][i].ID : i \in 1..Len(Videos[u])}

\* the video task is on the path that records a failure
Recording(v) == vpc[v] \in {"incr", "store", "errs", "append"}

\* ---------------------------------------------------------------- C4

C5_FailuresAccumulated ==
    \A u \in URLs :
        (Extracted(u) /\ ~ctxErr) =>
            /\ NumFailed[u] = Cardinality(FailedVideos(u))
            /\ Len(FailedErrors[u]) = NumFailed[u]
            /\ Len(Videos[u]) + NumFailed[u] = yielded[u]

\* ---------------------------------------------------------------- C6

\* C6: a video task that is about to write NumFailed, FailedErrors or Videos
\* of the shared result holds the mutex pMu of its Manager.Extract call.
C6_MutationsUnderMutex ==
    \A v \in Vids : vpc[v] \in {"store", "append", "locked"} => pMu[v[1]] = v[2]

\* ---------------------------------------------------------------- C7

\* C7: a video whose variant extraction failed never starts a fingerprint
\* task and is never appended to Videos, and recording the failure raises
\* NumFailed by one and adds one entry to FailedErrors.
C7_VariantFailureRecordedOnce ==
    [][\A v \in Vids :
        cause[v] = "extract variants" =>
            /\ fps[v] = <<>> /\ left[v] = {} /\ vid[v] = <<>>
            /\ vpc'[v] \in {"incr", "store", "errs", "append", "failed"}
            /\ v \notin AppendedVideos(v[1])
            /\ (vpc[v] = "store" /\ vpc'[v] = "errs")
                   => NumFailed'[v[1]] = NumFailed[v[1]] + 1
            /\ (vpc[v] = "append" /\ vpc'[v] = "failed")
                   => Len(FailedErrors'[v[1]]) = Len(FailedErrors[v[1]]) + 1]_vars

\* ---------------------------------------------------------------- C8

\* C8: a video one of whose deduplicated variants failed to fingerprint is
\* dropped: it is never appended to Videos, and recording the failure raises
\* NumFailed by one and adds one entry to FailedErrors.
C8_FingerprintFailureRecordedOnce ==
    [][\A v \in Vids :
        cause[v] = "fingerprint" =>
            /\ vpc'[v] \in {"incr", "store", "errs", "append", "failed"}
            /\ v \notin AppendedVideos(v[1])
            /\ (vpc[v] = "store" /\ vpc'[v] = "errs")
                   => NumFailed'[v[1]] = NumFailed[v[1]] + 1
            /\ (vpc[v] = "append" /\ vpc'[v] = "failed")
                   => Len(FailedErrors'[v[1]]) = Len(FailedErrors[v[1]]) + 1]_vars

\* ---------------------------------------------------------------- C9

\* C9 as stated: a fingerprint failure is fatal to that variant only; a video
\* holding variants that fingerprinted successfully is emitted with them and
\* is never on the path that records the video as failed.
C9_VariantFailureLocal ==
    \A v \in Vids : vid[v] # <<>> => ~Recording(v)

\* C9: a fingerprint failure of one variant is fatal to the whole video; a
\* video reaches the append to Videos only when every one of its deduplicated
\* variants has fingerprinted, and a video recorded as failed is not in Videos.
C9_FailureDropsVideo ==
    \A v \in Vids :
        /\ vpc[v] \in {"lock", "locked"} =>
               /\ ~gErr[v]
               /\ Len(vid[v]) = Len(fps[v])
               /\ {vid[v][i] : i \in 1..Len(vid[v])} = {fps[v][i] : i \in 1..Len(fps[v])}
        /\ (Recording(v) \/ vpc[v] = "failed") => v \notin AppendedVideos(v[1])

\* a video is being recorded as failed although one of its variants has
\* fingerprinted successfully
C9_Witness ==
    \E v \in Vids : cause[v] = "fingerprint" /\ vid[v] # <<>> /\ Recording(v)

\* ---------------------------------------------------------------- C10

\* C10: Manager.Extract returns an error exactly when Videos is empty; the
\* record sent for the URL carries the result exactly when there is no error.
C10_ErrorIffNoVideos ==
    \A u \in URLs :
        upc[u] = "send" =>
            /\ extractErr[u] <=> Len(Videos[u]) = 0
            /\ Output(u).Error <=> Len(Videos[u]) = 0
            /\ Output(u).Result = u <=> Len(Videos[u]) > 0

\* Manager.Extract returns a result without error although one of the videos
\* of the URL failed
C10_Witness ==
    \E u \in URLs :
        /\ upc[u] = "send"
        /\ ~extractErr[u]
        /\ Len(Videos[u]) >= 1
        /\ NumFailed[u] >= 1

\* ---------------------------------------------------------------- C11

\* the IDs of a slice of variants
IDsOf(vs) == {vs[i] : i \in 1..Len(vs)}

\* no two entries of the slice share an ID
DistinctIDs(vs) == \A i, j \in 1..Len(vs) : vs[i] = vs[j] => i = j

\* C11: no two variants of an emitted video share an ID: the slice the
\* fingerprint tasks are started from holds every extracted ID exactly once,
\* whatever references the variants came from and in whatever order they were
\* appended, and vid.Variants and the videos in result.Videos hold no ID twice.
C11_NoSharedVariantID ==
    /\ \A v \in Vids :
        /\ (vpc[v] = "refs" /\ pending[v] = 0) =>
               /\ DistinctIDs(Dedupe(variants[v]))
               /\ IDsOf(Dedupe(variants[v])) = IDsOf(variants[v])
        /\ DistinctIDs(fps[v])
        /\ Cardinality(left[v]) <= Cardinality(IDsOf(fps[v]))
        /\ DistinctIDs(vid[v])
        /\ IDsOf(vid[v]) \subseteq IDsOf(fps[v])
    /\ \A u \in URLs : \A i \in 1..Len(Videos[u]) : DistinctIDs(Videos[u][i].Variants)

\* the references of a video have delivered variants with a shared ID, and
\* the video goes on to fingerprint two distinct IDs
C11_Witness ==
    \E v \in Vids :
        /\ vpc[v] = "refs" /\ pending[v] = 0 /\ ~gErr[v]
        /\ Len(variants[v]) > Len(Dedupe(variants[v]))
        /\ Len(Dedupe(variants[v])) >= 2

\* ================================================================
\* DefaultFingerprinter.fingerprintExplicit (pkg/service/fingerprinter.go)
\* ================================================================

\* const retries in the segment task
retries == 5

\* math.MaxUint32, with uint32 narrowed to 16 bits: the model checker's
\* integers do not reach 2^32; the comparisons and the conversion below keep
\* their shape
MaxUint32 == 65535

\* uint32(l) for an int64 l
ToUint32(l) == l % (MaxUint32 + 1)

\* the Content-Length the origin reports for the segment URL u
ContentLength(u) == 10 * u

\* res.ContentLength of a response of the given kind to a HEAD for u
ResponseLength(kind, u) ==
    CASE kind = "success"    -> ContentLength(u)
      [] kind = "nolength"   -> -1
      [] kind = "toolarge"   -> MaxUint32 + 1
      [] OTHER               -> 0

Response(kind, u) == [kind |-> kind, length |-> ResponseLength(kind, u)]

\* fetchContentLength returns a non-nil error: only when httpClient.Do does;
\* the status code of a response is not looked at
FetchError(r) == r.kind \in {"neterr", "deadline"}

\* the length fetchContentLength returns
FetchLength(r) == IF FetchError(r) THEN 0 ELSE r.length

\* parseMPDExplicitAddressingInfo, $Number$ templates: every S element adds
\* 1 + r segments of its duration; URLs and SegmentDurations grow together
RECURSIVE TimelineDurations(_, _)
TimelineDurations(t, k) ==
    IF k > Len(t) THEN <<>>
    ELSE [j \in 1..(1 + t[k]) |-> 2 + k] \o TimelineDurations(t, k + 1)

ExplicitAddressingInfo(t, timescale) ==
    [URLs             |-> [i \in 1..Len(TimelineDurations(t, 1)) |-> i],
     SegmentDurations |-> TimelineDurations(t, 1),
     Timescale        |-> timescale]

\* the retry condition is try <= retries
MayRetryOnceMore(t) == t <= retries

\* the segment task never retries
NeverRetry(t) == FALSE

\* err != nil && try < retries
MayRetry(t) == t < retries

\* sizes are stored in the order the segment tasks complete
SlotByCompletion(i) == Cardinality({j \in Segs : segPc[j] = "ok"}) + 1

\* fp.SegmentSizes[i]: the slot the task of URLs[i] writes
SlotOf(i) == i

\* a plain group: a failing task cancels nothing
GroupNotCancelled(failed) == FALSE

\* errgroup.WithContext: the first task returning an error cancels the
\* context of the group
GroupCancelled(failed) == failed

\* the segment tasks the loop of fingerprintExplicit starts
InfoSegs == 1..Len(info.URLs)

\* where the loop over info.URLs stands before index i
FeLoopAt(i, n) == IF i > n THEN "wait" ELSE "go"

\* the pipeline variables while a component is modelled on its own
PipelineIdle ==
    /\ numURLs = 1 /\ limit = 1 /\ format = "both"
    /\ signal = FALSE /\ ctxErr = FALSE /\ sem = 0
    /\ appPc = "done" /\ nextURL = 1 /\ outputs = EmptyBag
    /\ upc = [u \in URLs |-> "idle"]
    /\ yielded = [u \in URLs |-> 0]
    /\ closed = [u \in URLs |-> FALSE]
    /\ results = [u \in URLs |-> <<>>]
    /\ extractErr = [u \in URLs |-> FALSE]
    /\ wg = [u \in URLs |-> 0]
    /\ pMu = [u \in URLs |-> 0]
    /\ Videos = [u \in URLs |-> <<>>]
    /\ NumFailed = [u \in URLs |-> 0]
    /\ FailedErrors = [u \in URLs |-> <<>>]
    /\ vpc = [v \in Vids |-> "none"]
    /\ pending = [v \in Vids |-> 0]
    /\ variants = [v \in Vids |-> <<>>]
    /\ gErr = [v \in Vids |-> FALSE]
    /\ fps = [v \in Vids |-> <<>>]
    /\ left = [v \in Vids |-> {}]
    /\ vid = [v \in Vids |-> <<>>]
    /\ cause = [v \in Vids |-> ""]
    /\ tmpNF = [v \in Vids |-> 0]
    /\ tmpFE = [v \in Vids |-> <<>>]

\* fingerprintExplicit has built fp from info and created the errgroup
InitExplicit ==
    /\ PipelineIdle
    /\ ManifestIdle
    /\ AuxIdle
    /\ \E t \in Timelines, timescale \in {1, 1000} :
        /\ Len(TimelineDurations(t, 1)) <= MaxSegs
        /\ info = ExplicitAddressingInfo(t, timescale)
    /\ fp = [SegmentSizes     |-> [i \in 1..Len(info.URLs) |-> 0],
             SegmentDurations |-> info.SegmentDurations,
             Timescale        |-> info.Timescale]
    /\ fePc = FeLoopAt(1, Len(info.URLs))
    /\ feNext = 1
    /\ parentErr = FALSE
    /\ feCtxErr = FALSE
    /\ feErr = ""
    /\ segPc = [i \in Segs |-> "idle"]
    /\ try = [i \in Segs |-> 0]
    /\ heads = [i \in Segs |-> 0]
    /\ resp = [i \in Segs |-> NoResponse]
    /\ slot = FALSE

\* g.Go for URLs[feNext]: the task starts with try = 0 and its first
\* fetchContentLength call
FeGo ==
    /\ fePc = "go"
    /\ segPc' = [segPc EXCEPT ![feNext] = "head"]
    /\ heads' = [heads EXCEPT ![feNext] = 1]
    /\ feNext' = feNext + 1
    /\ fePc' = FeLoopAt(feNext + 1, Len(info.URLs))
    /\ UNCHANGED <<info, fp, parentErr, feCtxErr, feErr, try, resp, slot>>
    /\ UNCHANGED <<appVars, urlVars, vidVars, manifestVars, auxVars>>

\* the context fingerprintExplicit was called with is cancelled, and with it
\* the context of the segment group
ParentCancel ==
    /\ fePc # "returned"
    /\ ~parentErr
    /\ parentErr' = TRUE
    /\ feCtxErr' = TRUE
    /\ UNCHANGED <<info, fp, fePc, feNext, feErr, segPc, try, heads, resp, slot>>
    /\ UNCHANGED <<appVars, urlVars, vidVars, manifestVars, auxVars>>

\* fetchContentLength returns with what the HEAD request came back with
HeadReturn(i) ==
    /\ segPc[i] = "head"
    /\ \E kind \in ResponseKinds : resp' = [resp EXCEPT ![i] = Response(kind, info.URLs[i])]
    /\ segPc' = [segPc EXCEPT ![i] = "got"]
    /\ UNCHANGED <<info, fp, fePc, feNext, parentErr, feCtxErr, feErr, try, heads, slot>>
    /\ UNCHANGED <<appVars, urlVars, vidVars, manifestVars, auxVars>>

\* the task returns err: the errgroup keeps the first error and cancels its context
TaskFails(i, final, err) ==
    /\ segPc' = [segPc EXCEPT ![i] = final]
    /\ feErr' = IF feErr = "" THEN err ELSE feErr
    /\ feCtxErr' = (feCtxErr \/ GroupCancelled(TRUE))
    /\ try' = [try EXCEPT ![i] = 0]
    /\ UNCHANGED <<info, fp, fePc, feNext, parentErr, heads, slot>>
    /\ UNCHANGED <<appVars, urlVars, vidVars, manifestVars, auxVars>>

\* if ctx.Err() != nil { return ctx.Err() }
ReturnCtxErr(i) ==
    /\ segPc[i] = "got"
    /\ feCtxErr
    /\ resp' = [resp EXCEPT ![i] = NoResponse]
    /\ TaskFails(i, "cancelled", "context canceled")

\* err != nil && try < retries: cancel(), time.Sleep starts, try++
Retry(i) ==
    /\ segPc[i] = "got"
    /\ ~feCtxErr
    /\ FetchError(resp[i])
    /\ MayRetry(try[i])
    /\ try' = [try EXCEPT ![i] = @ + 1]
    /\ segPc' = [segPc EXCEPT ![i] = "sleep"]
    /\ UNCHANGED <<info, fp, fePc, feNext, parentErr, feCtxErr, feErr, heads, resp, slot>>
    /\ UNCHANGED <<appVars, urlVars, vidVars, manifestVars, auxVars>>

\* time.Sleep returns; continue: the next iteration calls fetchContentLength
SleepEnd(i) ==
    /\ segPc[i] = "sleep"
    /\ segPc' = [segPc EXCEPT ![i] = "head"]
    /\ heads' = [heads EXCEPT ![i] = @ + 1]
    /\ resp' = [resp EXCEPT ![i] = NoResponse]
    /\ UNCHANGED <<info, fp, fePc, feNext, parentErr, feCtxErr, feErr, try, slot>>
    /\ UNCHANGED <<appVars, urlVars, vidVars, manifestVars, auxVars>>

\* err != nil with no retry left, or l > math.MaxUint32: the task returns an error
ReturnFetchErr(i) ==
    /\ segPc[i] = "got"
    /\ ~feCtxErr
    /\ \/ FetchError(resp[i]) /\ ~MayRetry(try[i])
       \/ ~FetchError(resp[i]) /\ FetchLength(resp[i]) > MaxUint32
    /\ resp' = resp
    /\ TaskFails(i, "failed",
                 IF FetchError(resp[i]) THEN "fetch content length"
                 ELSE "content length > uint32")

\* fp.SegmentSizes[i] = uint32(l); return nil
RecordSize(i) ==
    /\ segPc[i] = "got"
    /\ ~feCtxErr
    /\ ~FetchError(resp[i])
    /\ FetchLength(resp[i]) <= MaxUint32
    /\ fp' = [fp EXCEPT !.SegmentSizes[SlotOf(i)] = ToUint32(FetchLength(resp[i]))]
    /\ segPc' = [segPc EXCEPT ![i] = "ok"]
    /\ try' = [try EXCEPT ![i] = 0]
    /\ UNCHANGED <<info, fePc, feNext, parentErr, feCtxErr, feErr, heads, resp, slot>>
    /\ UNCHANGED <<appVars, urlVars, vidVars, manifestVars, auxVars>>

\* g.Wait() returns when every segment task has returned; fingerprintExplicit
\* returns fp and the group's error, and Manager.fingerprint sets
\* variant.Fingerprint = &fp only when the error is nil
FeWait ==
    /\ fePc = "wait"
    /\ \A i \in InfoSegs : segPc[i] \in {"ok", "failed", "cancelled"}
    /\ fePc' = "returned"
    /\ feCtxErr' = TRUE
    /\ slot' = (feErr = "")
    /\ UNCHANGED <<info, fp, feNext, parentErr, feErr, segPc, try, heads, resp>>
    /\ UNCHANGED <<appVars, urlVars, vidVars, manifestVars, auxVars>>

NextExplicit ==
    \/ FeGo
    \/ ParentCancel
    \/ \E i \in Segs : HeadReturn(i)
    \/ \E i \in Segs : ReturnCtxErr(i)
    \/ \E i \in Segs : Retry(i)
    \/ \E i \in Segs : SleepEnd(i)
    \/ \E i \in Segs : ReturnFetchErr(i)
    \/ \E i \in Segs : RecordSize(i)
    \/ FeWait

SpecExplicit == InitExplicit /\ [][NextExplicit]_vars

\* the segment task has been started and has not returned
SegRunning(i) == segPc[i] \in {"head", "got", "sleep"}

\* the segment task has returned
SegReturned(i) == segPc[i] \in {"ok", "failed", "cancelled"}

\* ---------------------------------------------------------------- C13

\* C13: a fingerprint returned without error has as many sizes as durations,
\* at least one segment, and a positive timescale.
C13_FingerprintWellFormed ==
    (fePc = "returned" /\ feErr = "") =>
        /\ Len(fp.SegmentSizes) = Len(fp.SegmentDurations)
        /\ Len(fp.SegmentSizes) >= 1
        /\ fp.Timescale > 0

\* ---------------------------------------------------------------- C15

\* C15: whatever order the HEAD tasks complete in, SegmentSizes[i] is the
\* Content-Length (as a uint32) obtained for URLs[i], a slot no task has
\* written is zero, and SegmentDurations and Timescale are those of the variant.
C15_SizesByURLPosition ==
    /\ Len(fp.SegmentSizes) = Len(info.URLs)
    /\ fp.SegmentDurations = info.SegmentDurations
    /\ fp.Timescale = info.Timescale
    /\ \A i \in InfoSegs :
        IF segPc[i] = "ok"
        THEN /\ resp[i].length = ResponseLength(resp[i].kind, info.URLs[i])
             /\ fp.SegmentSizes[i] = ToUint32(resp[i].length)
        ELSE fp.SegmentSizes[i] = 0

\* the task of the second URL has recorded its size while the task of the
\* first URL is still running
C15_Witness ==
    /\ Len(info.URLs) >= 2
    /\ segPc[2] = "ok" /\ resp[2].kind = "success"
    /\ fp.SegmentSizes[2] = ContentLength(info.URLs[2])
    /\ SegRunning(1)

\* ---------------------------------------------------------------- C16

\* C16 as stated: at most 5 HEAD attempts are made for one segment URL.
C16_AtMostFiveAttempts ==
    \A i \in Segs : heads[i] <= retries

\* C16: at most 1 + 5 HEAD attempts are made for one segment URL (the first
\* attempt and 5 retries); a fetch error is surfaced only after the 6th
\* failed attempt, and a task that has returned issues no further attempt.
C16_AtMostSixAttempts ==
    \A i \in Segs :
        /\ heads[i] <= retries + 1
        /\ segPc[i] \in {"head", "got"} => heads[i] = try[i] + 1
        /\ segPc[i] = "sleep" => heads[i] = try[i]
        /\ (segPc[i] = "failed" /\ FetchError(resp[i])) => heads[i] = retries + 1
        /\ SegReturned(i) => ~ENABLED (HeadReturn(i) \/ SleepEnd(i) \/ Retry(i))

\* the error of a segment URL has been surfaced after its 6th failed attempt
C16_Witness ==
    \E i \in Segs :
        /\ segPc[i] = "failed"
        /\ FetchError(resp[i])
        /\ heads[i] = retries + 1
        /\ feErr = "fetch content length"

\* ---------------------------------------------------------------- C17

\* C17: a HEAD response with a non-success status is a failed attempt: the
\* task backs off and retries (or gives up), and the Content-Length of such a
\* response is never recorded as a segment size.
C17_NonSuccessIsFailure ==
    \A i \in Segs :
        /\ (segPc[i] = "got" /\ resp[i].kind = "nonsuccess" /\ ~feCtxErr) =>
               /\ ~ENABLED RecordSize(i)
               /\ ENABLED (Retry(i) \/ ReturnFetchErr(i))
        /\ segPc[i] = "ok" => resp[i].kind # "nonsuccess"

\* ---------------------------------------------------------------- C18

\* C18: the expiry of a per-attempt deadline does not fail the segment task
\* while the group's context is not cancelled and retries remain: the task
\* backs off and makes another attempt; a successful attempt, however many
\* failed before it, records the size and the task succeeds.
C18_DeadlineExpiryRetries ==
    \A i \in Segs :
        /\ (segPc[i] = "got" /\ resp[i].kind = "deadline" /\ ~feCtxErr /\ try[i] < retries) =>
               /\ ENABLED Retry(i)
               /\ ~ENABLED (ReturnFetchErr(i) \/ ReturnCtxErr(i) \/ RecordSize(i))
        /\ (segPc[i] = "sleep" /\ resp[i].kind = "deadline") =>
               /\ ENABLED SleepEnd(i)
               /\ (feErr # "" => \E j \in Segs : j # i /\ segPc[j] \in {"failed", "cancelled"})
        /\ (segPc[i] = "got" /\ resp[i].kind = "success" /\ ~feCtxErr) =>
               /\ ENABLED RecordSize(i)
               /\ ~ENABLED (ReturnFetchErr(i) \/ ReturnCtxErr(i) \/ Retry(i))
        /\ (segPc[i] = "ok" /\ resp[i].kind = "success") =>
               fp.SegmentSizes[i] = ContentLength(info.URLs[i])

\* a task is backing off after the deadline of an attempt expired, and no
\* task of the group has failed
C18_Witness ==
    \E i \in Segs :
        /\ segPc[i] = "sleep"
        /\ resp[i].kind = "deadline"
        /\ ~feCtxErr
        /\ feErr = ""

\* ---------------------------------------------------------------- C19

\* C19: once the enclosing cancellation has fired, a started segment task
\* records no size, starts no back-off sleep and issues no further HEAD
\* attempt.
C19_AbortsOnCancellation ==
    [][\A i \in Segs :
        (parentErr /\ SegRunning(i)) =>
            /\ fp'.SegmentSizes = fp.SegmentSizes
            /\ heads'[i] = heads[i]
            /\ (segPc'[i] = "sleep" => segPc[i] = "sleep")]_vars

\* ---------------------------------------------------------------- C20

SpecFair == Spec /\ WF_vars(Step)

\* C21: after the cancellation signal has fired, every per-URL and per-video
\* task, those waiting to be started included, eventually ends and App.Extract
\* eventually returns.
C21_CancellationUnwinds ==
    signal ~> (appPc = "done" /\ RunningURLTasks = {} /\ RunningVideoTasks = {})

\* ---------------------------------------------------------------- C23

\* jsonWriter.write: the name of the file a record is written to; the
\* timestamp is fixed when the writer is created
FileName(rec) == <<rec.Prefix, "20060102_150405">> \o rec.Suffix \o <<".json">>

\* C23: the record of the input URL at position i carries the suffix _NNNNN
\* with NNNNN = i padded to five digits, whatever the order in which the per-URL
\* tasks complete; records of distinct positions get distinct file names, and
\* no position gets two records.
C23_SuffixByPosition ==
    /\ \A u \in URLs :
         /\ \A rec \in RecordsAt(u - 1) : upc[u] = "done" /\ rec.Result \in {0, u}
         /\ upc[u] = "done" => NumRecordsAt(u - 1) = 1
         /\ Len(Sprintf05(u - 1)) = 6
    /\ \A rec \in BagToSet(outputs) :
         /\ \E u \in URLs : rec \in RecordsAt(u - 1)
         /\ CopiesIn(rec, outputs) = 1
    /\ \A r1, r2 \in BagToSet(outputs) : FileName(r1) = FileName(r2) => r1 = r2

\* the task of the second URL has sent its record while the task of the first
\* URL is still running
C23_Witness ==
    /\ upc[2] = "done"
    /\ upc[1] \notin {"idle", "done"}
    /\ \E rec \in RecordsAt(1) : ~rec.Error

\* ---------------------------------------------------------------- main

\* the commands of the command line
Commands == {"extract-urls", "extract", "fingerprint"}

\* the record App.URLExtract or App.Fingerprint sends
CommandOutput(cmd, err) ==
    [Result |-> IF err THEN 0 ELSE 1,
     Prefix |-> IF cmd = "extract-urls" THEN "urls_" ELSE "fingerprint_",
     Suffix |-> <<>>,
     Error  |-> err]

\* main has started the two handlers and either runs its command or has
\* returned early because no country code could be determined
InitMain ==
    /\ ExplicitIdle
    /\ ManifestIdle
    /\ ToolIdle
    /\ command \in Commands
    /\ mainPc \in {"command", "deferred"}
    /\ outClosed = FALSE
    /\ handlerPc = "ranging"
    /\ panicked = FALSE
    /\ IF command = "extract" /\ mainPc = "command"
       THEN /\ numURLs \in 1..MaxURLs
            /\ limit \in 1..MaxLimit
            /\ format \in FormatFilters
            /\ appPc = "loop"
       ELSE /\ numURLs = 1
            /\ limit = 1
            /\ format = "both"
            /\ appPc = "done"
    /\ signal = FALSE /\ ctxErr = FALSE /\ sem = 0
    /\ nextURL = 1 /\ outputs = EmptyBag
    /\ upc = [u \in URLs |-> "idle"]
    /\ yielded = [u \in URLs |-> 0]
    /\ closed = [u \in URLs |-> FALSE]
    /\ results = [u \in URLs |-> <<>>]
    /\ extractErr = [u \in URLs |-> FALSE]
    /\ wg = [u \in URLs |-> 0]
    /\ pMu = [u \in URLs |-> 0]
    /\ Videos = [u \in URLs |-> <<>>]
    /\ NumFailed = [u \in URLs |-> 0]
    /\ FailedErrors = [u \in URLs |-> <<>>]
    /\ vpc = [v \in Vids |-> "none"]
    /\ pending = [v \in Vids |-> 0]
    /\ variants = [v \in Vids |-> <<>>]
    /\ gErr = [v \in Vids |-> FALSE]
    /\ fps = [v \in Vids |-> <<>>]
    /\ left = [v \in Vids |-> {}]
    /\ vid = [v \in Vids |-> <<>>]
    /\ cause = [v \in Vids |-> ""]
    /\ tmpNF = [v \in Vids |-> 0]
    /\ tmpFE = [v \in Vids |-> <<>>]

\* App.URLExtract, App.Fingerprint: the manager returns and the one record of
\* the command is sent, then the command returns
CommandSend ==
    /\ mainPc = "command"
    /\ command # "extract"
    /\ \E err \in BOOLEAN :
         outputs' = IF outClosed THEN outputs
                    ELSE outputs (+) SetToBag({CommandOutput(command, err)})
    /\ panicked' = (panicked \/ outClosed)
    /\ mainPc' = "deferred"
    /\ UNCHANGED <<numURLs, limit, format, signal, ctxErr, sem, appPc, nextURL>>
    /\ UNCHANGED <<command, outClosed, handlerPc>>
    /\ UNCHANGED <<urlVars, vidVars, explicitVars, manifestVars, toolVars>>

\* App.Extract returns to main
CommandReturn ==
    /\ mainPc = "command"
    /\ command = "extract"
    /\ appPc = "done"
    /\ mainPc' = "deferred"
    /\ UNCHANGED <<command, outClosed, handlerPc, panicked>>
    /\ UNCHANGED <<appVars, urlVars, vidVars, explicitVars, manifestVars, toolVars>>

\* App.Close runs as soon as the handlers have been started
CloseBeforeReturn == mainPc \in {"command", "deferred"}

\* App.Close is called by the deferred function of main, which runs when main
\* returns
CloseAllowed == mainPc = "deferred"

\* the deferred function: app.Close()
Close ==
    /\ CloseAllowed
    /\ ~outClosed
    /\ outClosed' = TRUE
    /\ mainPc' = "wgwait"
    /\ UNCHANGED <<command, handlerPc, panicked>>
    /\ UNCHANGED <<appVars, urlVars, vidVars, explicitVars, manifestVars, toolVars>>

\* the context stays as it is when OutputHandler has returned
NoCancelAfterHandler(err) == err

\* main's first goroutine: cancel() after OutputHandler has returned
CancelAfterHandler(err) == TRUE

\* OutputHandler: the range over the closed channel ends; main's goroutine
\* calls cancel()
HandlerExit ==
    /\ handlerPc = "ranging"
    /\ outClosed
    /\ handlerPc' = "exited"
    /\ ctxErr' = CancelAfterHandler(ctxErr)
    /\ UNCHANGED <<numURLs, limit, format, signal, sem, appPc, nextURL, outputs>>
    /\ UNCHANGED <<command, mainPc, outClosed, panicked>>
    /\ UNCHANGED <<urlVars, vidVars, explicitVars, manifestVars, toolVars>>

\* ShutdownHandler: the select ends with the signal, whose case cancels the
\* context, or with the end of the context; the handler returns
ShutdownExit ==
    /\ shutdownPc = "select"
    /\ signal \/ ctxErr
    /\ shutdownPc' = "exited"
    /\ ctxErr' = TRUE
    /\ UNCHANGED <<numURLs, limit, format, signal, sem, appPc, nextURL, outputs>>
    /\ UNCHANGED <<urlVars, vidVars, explicitVars, manifestVars, mainVars>>
    /\ UNCHANGED <<refVars, parseVars, registryVars, transportVars, periodVars, producerVars>>

\* the deferred function: wg.Wait() returns when OutputHandler and
\* ShutdownHandler have both returned
MainExit ==
    /\ mainPc = "wgwait"
    /\ handlerPc = "exited"
    /\ shutdownPc = "exited"
    /\ mainPc' = "exit"
    /\ UNCHANGED <<command, outClosed, handlerPc, panicked>>
    /\ UNCHANGED <<appVars, urlVars, vidVars, explicitVars, manifestVars, toolVars>>

NextMain ==
    \/ Step
    \/ Signal
    \/ CommandSend
    \/ CommandReturn
    \/ Close
    \/ HandlerExit
    \/ ShutdownExit
    \/ MainExit

SpecMain == InitMain /\ [][NextMain]_vars

\* C22: the output channel is closed last: App.Close runs only after the
\* command has returned and every record it sent has been received, so no task
\* sends on the closed channel, after normal completion, after cancellation and
\* after an early return of main alike.
C22_ClosedLast ==
    /\ ~panicked
    /\ outClosed =>
         /\ mainPc \in {"wgwait", "exit"}
         /\ appPc = "done"
         /\ RunningURLTasks = {}
         /\ RunningVideoTasks = {}

\* the channel is closed after a cancelled extract command whose two per-URL
\* tasks have sent their records
C22_Witness ==
    /\ outClosed
    /\ command = "extract"
    /\ signal
    /\ BagCardinality(outputs) = 2

\* the goroutines of the two handlers and of main are scheduled
SpecMainFair ==
    SpecMain /\ WF_vars(HandlerExit) /\ WF_vars(ShutdownExit) /\ WF_vars(MainExit)

\* C37: shutdown terminates: once App.Close has closed the output channel,
\* OutputHandler returns and the context is cancelled, ShutdownHandler
\* returns, and the wait in the deferred function of main completes.
C37_ShutdownTerminates ==
    outClosed ~> (mainPc = "exit" /\ handlerPc = "exited" /\ shutdownPc = "exited" /\ ctxErr)

\* main has returned after a signal ended its extract command
C37_Witness ==
    /\ mainPc = "exit"
    /\ command = "extract"
    /\ signal
    /\ handlerPc = "exited"
    /\ shutdownPc = "exited"

\* main has returned on an early-return path, without any signal
C37_EarlyReturnWitness ==
    /\ mainPc = "exit"
    /\ command # "extract"
    /\ ~signal
    /\ outputs = EmptyBag

\* the variables of the pipeline, of main and of the two fingerprinting paths
coreVars == <<appVars, urlVars, vidVars, explicitVars, manifestVars, mainVars, lateVars>>

\* none of them is active
CoreIdle == PipelineIdle /\ ExplicitIdle /\ ManifestIdle /\ MainIdle /\ LateIdle

\* ---------------------------------------------------------------------------
\* Fingerprinting a manifest: ExtractVariants on a DASH or HLS manifest, then
\* one fingerprint task for each variant it returns
\* (variantextractor.go, service.go: Manager.Fingerprint, fingerprintVariants)
\* ---------------------------------------------------------------------------

\* the bandwidths a representation or playlist variant may declare
Bandwidths == {100, 201}

\* the durations a period may declare
PeriodDurations == {1, 2}

\* the file extensions of the segments of a media playlist, in playlist order
SegmentExts == {<<>>, <<".ts">>, <<".bin", ".mp4">>}

\* the hex MD5 digest of "mime-codecs-width-height-bandwidth"
computeID(mimeType, codecs, width, height, bandwidth) ==
    [md5 |-> <<mimeType, "-", codecs, "-", width, "-", height, "-", bandwidth>>]

\* a key is the URL of a single indexed file or a segment template, never both
ModeOfKey(k) == IF k = "k1" THEN "explicit" ELSE "indexed"

\* the variant of representation number n: the ID is computed from the five
\* fields the variant is built with
extractMPDVariant(k, bandwidth, n) ==
    [ID             |-> computeID("video/mp4", "avc1", 640, 360, bandwidth),
     MimeType       |-> "video/mp4",
     Codecs         |-> "avc1",
     Width          |-> 640,
     Height         |-> 360,
     Bandwidth      |-> bandwidth,
     AddressingMode |-> ModeOfKey(k),
     Key            |-> k,
     Segments       |-> IF ModeOfKey(k) = "explicit" THEN <<n>> ELSE <<>>,
     Fingerprint    |-> FALSE]

\* the MIME type of a media playlist: decided by the first segment, from
\* position i on, whose extension is known
RECURSIVE MimeOf(_, _)
MimeOf(exts, i) ==
    IF i > Len(exts) THEN ""
    ELSE IF exts[i] = ".ts" THEN "video/mp2t"
    ELSE IF exts[i] \in {".m4s", ".m4v", ".mp4"} THEN "video/mp4"
    ELSE MimeOf(exts, i + 1)

\* the variant of playlist variant number n: the MIME type comes from the
\* segments, and the ID is computed after them; a playlist with byte ranges
\* carries its fingerprint already
extractM3U8Variant(exts, bandwidth, ranged, n) ==
    [ID             |-> computeID(MimeOf(exts, 1), "avc1", 640, 360, bandwidth),
     MimeType       |-> MimeOf(exts, 1),
     Codecs         |-> "avc1",
     Width          |-> 640,
     Height         |-> 360,
     Bandwidth      |-> bandwidth,
     AddressingMode |-> IF ranged THEN "fingerprinted" ELSE "explicit",
     Key            |-> "",
     Segments       |-> IF ranged THEN <<>> ELSE <<n>>,
     Fingerprint    |-> ranged]

\* the sum of the bandwidths of the first n variants of a group
RECURSIVE SumBandwidth(_, _)
SumBandwidth(g, n) ==
    IF n = 0 THEN 0 ELSE SumBandwidth(g, n - 1) + g[n].Bandwidth

\* the segments of the first n variants of a group, in the order they were added
RECURSIVE ConcatSegments(_, _)
ConcatSegments(g, n) ==
    IF n = 0 THEN <<>> ELSE ConcatSegments(g, n - 1) \o g[n].Segments

\* the merged variant keeps the ID of the first period
FirstPeriodID(m, bandwidth) == m.ID

\* the ID of a merged variant: recomputed when the mean bandwidth differs from
\* the bandwidth of the first period
MergedID(m, bandwidth) ==
    IF bandwidth # m.Bandwidth
    THEN computeID(m.MimeType, m.Codecs, m.Width, m.Height, bandwidth)
    ELSE m.ID

\* the variant a group is merged into: a copy of the first one with the mean
\* bandwidth and, for explicit addressing, the segments of every period
mergeGroup(g) ==
    LET m == g[1]
        bandwidth == ToUint32(SumBandwidth(g, Len(g)) \div Len(g))
    IN [m EXCEPT !.Bandwidth = bandwidth,
                 !.Segments = IF m.AddressingMode = "explicit"
                              THEN ConcatSegments(g, Len(g)) ELSE @,
                 !.ID = MergedID(m, bandwidth)]

\* the keys merge keeps: those present for as long as the longest one
Surviving == {k \in Keys : group[k] # <<>> /\ durations[k] >= maxDuration}

\* the orders in which the map of groups may be iterated
Orders(S) ==
    {o \in [1..Cardinality(S) -> S] : \A i, j \in 1..Cardinality(S) : o[i] = o[j] => i = j}

\* a fingerprint task never sets the Fingerprint of its variant
fingerprintDropped(variant, ok) == variant

\* Manager.fingerprint: the Fingerprint is set only when the fingerprinter
\* returned no error
fingerprint(variant, ok) ==
    IF ok THEN [variant EXCEPT !.Fingerprint = TRUE] ELSE variant

\* Manager.Fingerprint: an empty result when fingerprintVariants failed
ManifestResult(list, err) == IF err THEN <<>> ELSE list

\* Manager.Extract starts one task for each distinct ID
FirstWithID(i) == \A j \in 1..(i - 1) : mvs[j].ID # mvs[i].ID

InitManifest ==
    /\ PipelineIdle
    /\ ExplicitIdle
    /\ AuxIdle
    /\ mformat \in {"dash", "hls"}
    /\ group = [k \in Keys |-> <<>>]
    /\ durations = [k \in Keys |-> 0]
    /\ maxDuration = 0
    /\ adds = 0
    /\ mvs = <<>>
    /\ mfPc = "extract"
    /\ fvLeft = {}
    /\ fvErr = FALSE
    /\ emitted = <<>>
    /\ resVariants = <<>>
    /\ resErr = FALSE

\* extractMPDVariants: one more representation is extracted and added to its group
AddRepresentation ==
    /\ mfPc = "extract"
    /\ mformat = "dash"
    /\ adds < MaxReps
    /\ \E k \in Keys, bandwidth \in Bandwidths, d \in PeriodDurations :
         /\ group' = [group EXCEPT ![k] = Append(@, extractMPDVariant(k, bandwidth, adds + 1))]
         /\ durations' = [durations EXCEPT ![k] = @ + d]
         /\ maxDuration' = IF durations[k] + d > maxDuration THEN durations[k] + d
                           ELSE maxDuration
    /\ adds' = adds + 1
    /\ UNCHANGED <<mformat, mvs, mfPc, fvLeft, fvErr, emitted, resVariants, resErr>>
    /\ UNCHANGED <<appVars, urlVars, vidVars, explicitVars, auxVars>>

\* extractM3U8Variants: the variant of the next playlist entry is stored
AddPlaylistVariant ==
    /\ mfPc = "extract"
    /\ mformat = "hls"
    /\ adds < MaxReps
    /\ \E exts \in SegmentExts, bandwidth \in Bandwidths, ranged \in BOOLEAN :
         /\ ranged => exts # <<>>
         /\ mvs' = Append(mvs, extractM3U8Variant(exts, bandwidth, ranged, adds + 1))
    /\ adds' = adds + 1
    /\ UNCHANGED <<mformat, group, durations, maxDuration, mfPc, fvLeft, fvErr, emitted,
                   resVariants, resErr>>
    /\ UNCHANGED <<appVars, urlVars, vidVars, explicitVars, auxVars>>

\* a representation or a media playlist cannot be extracted: ExtractVariants,
\* fingerprintVariants and Manager.Fingerprint return the error
ExtractError ==
    /\ mfPc = "extract"
    /\ mfPc' = "returned"
    /\ resErr' = TRUE
    /\ resVariants' = ManifestResult(<<>>, TRUE)
    /\ UNCHANGED <<mformat, group, durations, maxDuration, adds, mvs, fvLeft, fvErr, emitted>>
    /\ UNCHANGED <<appVars, urlVars, vidVars, explicitVars, auxVars>>

\* the fingerprint tasks of the returned variants are started
StartFingerprints(list) ==
    /\ mvs' = list
    /\ mfPc' = "fingerprint"
    /\ fvLeft' = 1..Len(list)
    /\ UNCHANGED <<resVariants, resErr>>

\* extractMPDVariants after the last period: the groups are merged, and no
\* variant at all is an error
Merge ==
    /\ mfPc = "extract"
    /\ mformat = "dash"
    /\ \E o \in Orders(Surviving) :
         LET merged == [i \in 1..Cardinality(Surviving) |-> mergeGroup(group[o[i]])]
         IN IF Len(merged) > 0
            THEN StartFingerprints(merged)
            ELSE /\ mfPc' = "returned"
                 /\ resErr' = TRUE
                 /\ resVariants' = ManifestResult(<<>>, TRUE)
                 /\ UNCHANGED <<mvs, fvLeft>>
    /\ UNCHANGED <<mformat, group, durations, maxDuration, adds, fvErr, emitted>>
    /\ UNCHANGED <<appVars, urlVars, vidVars, explicitVars, auxVars>>

\* extractM3U8Variants after g.Wait: the stored variants are returned
PlaylistWait ==
    /\ mfPc = "extract"
    /\ mformat = "hls"
    /\ StartFingerprints(mvs)
    /\ UNCHANGED <<mformat, group, durations, maxDuration, adds, fvErr, emitted>>
    /\ UNCHANGED <<appVars, urlVars, vidVars, explicitVars, auxVars>>

\* the fingerprint task of variant i succeeds
FvOk(i) ==
    /\ mfPc = "fingerprint"
    /\ i \in fvLeft
    /\ mvs' = [mvs EXCEPT ![i] = fingerprint(@, TRUE)]
    /\ emitted' = IF FirstWithID(i) THEN Append(emitted, fingerprint(mvs[i], TRUE))
                  ELSE emitted
    /\ fvLeft' = fvLeft \ {i}
    /\ UNCHANGED <<mformat, group, durations, maxDuration, adds, mfPc, fvErr, resVariants,
                   resErr>>
    /\ UNCHANGED <<appVars, urlVars, vidVars, explicitVars, auxVars>>

\* the fingerprint task of variant i fails; a variant that carries its
\* fingerprint already cannot fail
FvErr(i) ==
    /\ mfPc = "fingerprint"
    /\ i \in fvLeft
    /\ mvs[i].AddressingMode # "fingerprinted"
    /\ mvs' = [mvs EXCEPT ![i] = fingerprint(@, FALSE)]
    /\ fvErr' = TRUE
    /\ fvLeft' = fvLeft \ {i}
    /\ UNCHANGED <<mformat, group, durations, maxDuration, adds, mfPc, emitted, resVariants,
                   resErr>>
    /\ UNCHANGED <<appVars, urlVars, vidVars, explicitVars, auxVars>>

\* g.Wait of fingerprintVariants, and the return of Manager.Fingerprint
FvWait ==
    /\ mfPc = "fingerprint"
    /\ fvLeft = {}
    /\ mfPc' = "returned"
    /\ resErr' = fvErr
    /\ resVariants' = ManifestResult(mvs, fvErr)
    /\ UNCHANGED <<mformat, group, durations, maxDuration, adds, mvs, fvLeft, fvErr, emitted>>
    /\ UNCHANGED <<appVars, urlVars, vidVars, explicitVars, auxVars>>

NextManifest ==
    \/ AddRepresentation
    \/ AddPlaylistVariant
    \/ ExtractError
    \/ Merge
    \/ PlaylistWait
    \/ \E i \in 1..MaxReps : FvOk(i)
    \/ \E i \in 1..MaxReps : FvErr(i)
    \/ FvWait

SpecManifest == InitManifest /\ [][NextManifest]_vars

\* the ID of a variant is the identifier of its current five fields
IDCurrent(v) == v.ID = computeID(v.MimeType, v.Codecs, v.Width, v.Height, v.Bandwidth)

\* C12: every variant in the variant list of an emitted video or of a returned
\* fingerprint result of a manifest has its Fingerprint set: a variant is put
\* in the output only after its own fingerprint task succeeded
C12_OutputVariantsFingerprinted ==
    /\ \A i \in 1..Len(emitted) : emitted[i].Fingerprint
    /\ \A i \in 1..Len(resVariants) : resVariants[i].Fingerprint
    /\ (mfPc = "returned" /\ ~resErr) => resVariants = mvs

\* a manifest result with two variants, one of them fingerprinted by its task,
\* has been returned
C12_Witness ==
    /\ mfPc = "returned"
    /\ ~resErr
    /\ Len(resVariants) >= 2
    /\ Len(emitted) >= 1
    /\ \E i \in 1..Len(resVariants) : resVariants[i].AddressingMode # "fingerprinted"

\* C14: every variant ExtractVariants returns, a merged DASH variant with the
\* mean bandwidth and an HLS variant included, has the ID that computeID gives
\* for its current MimeType, Codecs, Width, Height and Bandwidth
C14_IDMatchesFields ==
    /\ \A i \in 1..Len(mvs) : IDCurrent(mvs[i])
    /\ \A i \in 1..Len(resVariants) : IDCurrent(resVariants[i])
    /\ \A k \in Keys : \A i \in 1..Len(group[k]) : IDCurrent(group[k][i])

\* a merged variant whose mean bandwidth is not that of its first period
C14_Witness ==
    /\ mformat = "dash"
    /\ \E i \in 1..Len(mvs) :
         /\ Len(group[mvs[i].Key]) >= 2
         /\ mvs[i].Bandwidth # group[mvs[i].Key][1].Bandwidth

\* ---------------------------------------------------------------------------
\* The references of one svt video result and the reference tasks of its video
\* task (svt.go: videoResponse.references; service.go: Manager.Extract)
\* ---------------------------------------------------------------------------

\* the format strings a video reference of the svt API may carry, as
\* sequences of characters
RawFormats ==
    {<<"d", "a", "s", "h">>, <<"h", "l", "s", "-", "c">>, <<"h", "d", "s">>, <<"d", "a">>}

\* strings.HasPrefix
HasPrefix(str, prefix) ==
    Len(str) >= Len(prefix) /\ SubSeq(str, 1, Len(prefix)) = prefix

\* the Format a raw format string is mapped to ("" when the switch takes its
\* default branch)
svtFormat(raw) ==
    IF HasPrefix(raw, <<"d", "a", "s", "h">>) THEN "dash"
    ELSE IF HasPrefix(raw, <<"h", "l", "s">>) THEN "hls"
    ELSE ""

\* videoResponse.references: the slice has one entry for every video
\* reference; the entry of a reference the switch does not know stays the zero
\* model.Reference
references(raws) ==
    [i \in 1..Len(raws) |->
        IF svtFormat(raws[i]) = "" THEN [ID |-> <<>>, Format |-> ""]
        ELSE [ID |-> raws[i], Format |-> svtFormat(raws[i])]]

\* the filter of the reference loop of Manager.Extract
FilterSkips(filter, f) == filter # "both" /\ f # filter

\* the formats ExtractVariants has an extractor for
Supported(f) == f \in {"dash", "hls"}

InitRefs ==
    /\ CoreIdle
    /\ ParseIdle /\ RegistryIdle /\ TransportIdle
    /\ rawFormats \in UNION {[1..n -> RawFormats] : n \in 0..MaxRefs}
    /\ refFilter \in FormatFilters
    /\ refList = <<>>
    /\ refPc = "response"
    /\ refLeft = {}
    /\ refCalls = {}
    /\ refErrs = {}

\* the video result is built from the response, and the video task starts one
\* task for every reference that passes the filter
VideoResponse ==
    /\ refPc = "response"
    /\ refList' = references(rawFormats)
    /\ refLeft' = {i \in 1..Len(rawFormats) :
                     ~FilterSkips(refFilter, references(rawFormats)[i].Format)}
    /\ refPc' = "refs"
    /\ UNCHANGED <<rawFormats, refFilter, refCalls, refErrs>>
    /\ UNCHANGED <<coreVars, parseVars, registryVars, transportVars>>

\* the task of reference i: extractVariants returns variants
RefTaskOk(i) ==
    /\ refPc = "refs"
    /\ i \in refLeft
    /\ Supported(refList[i].Format)
    /\ refCalls' = refCalls \cup {i}
    /\ refLeft' = refLeft \ {i}
    /\ UNCHANGED <<rawFormats, refFilter, refList, refPc, refErrs>>
    /\ UNCHANGED <<coreVars, parseVars, registryVars, transportVars>>

\* the task of reference i: extractVariants returns an error, always so for a
\* format ExtractVariants has no extractor for
RefTaskErr(i) ==
    /\ refPc = "refs"
    /\ i \in refLeft
    /\ refCalls' = refCalls \cup {i}
    /\ refErrs' = refErrs \cup {i}
    /\ refLeft' = refLeft \ {i}
    /\ UNCHANGED <<rawFormats, refFilter, refList, refPc>>
    /\ UNCHANGED <<coreVars, parseVars, registryVars, transportVars>>

\* g.Wait() of the reference group: an error fails the video
RefGroupWait ==
    /\ refPc = "refs"
    /\ refLeft = {}
    /\ refPc' = IF refErrs # {} THEN "failed" ELSE "ok"
    /\ UNCHANGED <<rawFormats, refFilter, refList, refLeft, refCalls, refErrs>>
    /\ UNCHANGED <<coreVars, parseVars, registryVars, transportVars>>

NextRefs ==
    \/ VideoResponse
    \/ \E i \in 1..MaxRefs : RefTaskOk(i)
    \/ \E i \in 1..MaxRefs : RefTaskErr(i)
    \/ RefGroupWait

SpecRefs == InitRefs /\ [][NextRefs]_vars

\* C27: a video reference with an unknown format string is silently dropped:
\* under every format filter no variant extraction is started for it, it causes
\* no error, and the video fails only when a reference of a known format failed.
C27_UnknownFormatDropped ==
    /\ \A i \in 1..Len(rawFormats) :
         svtFormat(rawFormats[i]) = "" => i \notin refCalls /\ i \notin refErrs
    /\ refPc = "failed" =>
         \E i \in refErrs : svtFormat(rawFormats[i]) # ""

\* C40: every video that Manager.Extract appends to Videos carries at least
\* one variant: when the video task ends without an error, at least one
\* reference passed the format filter and had its variants extracted.
C40_AppendedVideoHasVariant ==
    refPc = "ok" => refCalls # {}

\* ---------------------------------------------------------------------------
\* Materializing the segments of a SegmentTemplate with a SegmentTimeline
\* (variantextractor.go: parseMPDExplicitAddressingInfo)
\* ---------------------------------------------------------------------------

\* the media templates: with $Number$, with $Time$, with both, with neither
Medias ==
    {<<"seg-", "$Number$", ".m4s">>,
     <<"seg-", "$Time$", ".m4s">>,
     <<"seg-", "$Time$", "-", "$Number$", ".m4s">>,
     <<"seg.m4s">>}

\* the S entries of a timeline: t is <<>> when the attribute is absent
TimelineEntries ==
    [t : {<<>>, <<100>>}, d : {7, MaxUint32, MaxUint32 + 1}, r : {-1, 0, 1}]

\* strings.Contains, for a placeholder
Contains(str, placeholder) == \E i \in 1..Len(str) : str[i] = placeholder

\* strings.Replace(str, placeholder, value, 1): the first occurrence is replaced
Replace(str, placeholder, value) ==
    IF ~Contains(str, placeholder) THEN str
    ELSE LET i == CHOOSE j \in 1..Len(str) :
                    /\ str[j] = placeholder
                    /\ \A k \in 1..(j - 1) : str[k] # placeholder
         IN SubSeq(str, 1, i - 1) \o value \o SubSeq(str, i + 1, Len(str))

\* no duration is rejected
NeverTooLong(d) == FALSE

\* the check of a duration against the range of uint32
TooLong(d) == d > MaxUint32

\* every entry gives one segment
RepeatsOnce(r) == 1

\* the number of segments of an entry with repeat count r
Repeats(r) == 1 + r

\* the URLs and durations of the n segments of one entry in $Number$ mode,
\* numbered from num on
RECURSIVE NumberedSegments(_, _, _, _)
NumberedSegments(template, d, num, n) ==
    IF n <= 0 THEN [URLs |-> <<>>, SegmentDurations |-> <<>>]
    ELSE LET rest == NumberedSegments(template, d, num + 1, n - 1)
         IN [URLs |-> <<Replace(template, "$Number$", Decimal(num))>> \o rest.URLs,
             SegmentDurations |-> <<ToUint32(d)>> \o rest.SegmentDurations]

\* the loop over the entries from position k on, with the running number num
\* and the lists built so far
RECURSIVE ParseFrom(_, _, _, _, _, _)
ParseFrom(template, S, k, num, urls, durs) ==
    IF k > Len(S) THEN [err |-> "", URLs |-> urls, SegmentDurations |-> durs]
    ELSE LET e == S[k] IN
         IF TooLong(e.d)
         THEN [err |-> "segment duration > uint32", URLs |-> <<>>, SegmentDurations |-> <<>>]
         ELSE IF Contains(template, "$Time$")
         THEN IF e.t = <<>>
              THEN [err |-> "missing time in segment timeline",
                    URLs |-> <<>>, SegmentDurations |-> <<>>]
              ELSE ParseFrom(template, S, k + 1, num,
                             Append(urls, Replace(template, "$Time$", Decimal(e.t[1]))),
                             Append(durs, ToUint32(e.d)))
         ELSE IF e.r < 0
         THEN [err |-> "unlimited repeat in segment timeline",
               URLs |-> <<>>, SegmentDurations |-> <<>>]
         ELSE LET segs == NumberedSegments(template, e.d, num, Repeats(e.r))
              IN ParseFrom(template, S, k + 1, num + Len(segs.URLs),
                           urls \o segs.URLs, durs \o segs.SegmentDurations)

\* parseMPDExplicitAddressingInfo on a template with a timeline: the
\* placeholder check, the default of the start number, then the loop
parseMPDExplicitAddressingInfo(template, start, S) ==
    IF ~Contains(template, "$Time$") /\ ~Contains(template, "$Number$")
    THEN [err |-> "unknown placeholder", URLs |-> <<>>, SegmentDurations |-> <<>>]
    ELSE ParseFrom(template, S, 1, IF start = <<>> THEN 1 ELSE start[1], <<>>, <<>>)

InitParse ==
    /\ CoreIdle
    /\ RefIdle /\ RegistryIdle /\ TransportIdle
    /\ media \in Medias
    /\ startNumber \in {<<>>, <<5>>}
    /\ timeline \in UNION {[1..n -> TimelineEntries] : n \in 0..MaxS}
    /\ parsed = [err |-> "", URLs |-> <<>>, SegmentDurations |-> <<>>]
    /\ parsePc = "call"

\* the call returns
Parse ==
    /\ parsePc = "call"
    /\ parsed' = parseMPDExplicitAddressingInfo(media, startNumber, timeline)
    /\ parsePc' = "returned"
    /\ UNCHANGED <<media, startNumber, timeline>>
    /\ UNCHANGED <<coreVars, refVars, registryVars, transportVars>>

SpecParse == InitParse /\ [][Parse]_vars

\* the entry of the timeline that the k-th segment belongs to, searching from
\* entry j on, when each entry r stands for 1 + r segments
RECURSIVE EntryOf(_, _, _)
EntryOf(S, j, k) ==
    IF k <= 1 + S[j].r THEN j ELSE EntryOf(S, j + 1, k - (1 + S[j].r))

\* the number of segments of the first n entries
RECURSIVE SegmentCount(_, _)
SegmentCount(S, n) == IF n = 0 THEN 0 ELSE SegmentCount(S, n - 1) + 1 + S[n].r

\* the template is in $Number$ mode and every duration fits
NumberMode ==
    /\ parsePc = "returned"
    /\ Contains(media, "$Number$") /\ ~Contains(media, "$Time$")
    /\ \A i \in 1..Len(timeline) : timeline[i].d <= MaxUint32

\* C28: with a $Number$ template and a timeline whose entries all have r >= 0
\* the lists hold exactly sum(1 + r_i) pairs, the k-th URL carries the number
\* startNumber + k - 1 (startNumber defaulting to 1) and each duration d_i is
\* repeated 1 + r_i times in order; an entry with r < 0 makes the call fail.
C28_NumberMaterialization ==
    NumberMode =>
        LET start == IF startNumber = <<>> THEN 1 ELSE startNumber[1]
            n == SegmentCount(timeline, Len(timeline))
        IN IF \A i \in 1..Len(timeline) : timeline[i].r >= 0
           THEN /\ parsed.err = ""
                /\ Len(parsed.URLs) = n
                /\ Len(parsed.SegmentDurations) = n
                /\ \A k \in 1..n :
                     /\ parsed.URLs[k] = <<"seg-">> \o Decimal(start + k - 1) \o <<".m4s">>
                     /\ parsed.SegmentDurations[k] = timeline[EntryOf(timeline, 1, k)].d
           ELSE parsed.err # ""

\* the four segments numbered 5, 6, 7, 8 of a timeline of two entries
C28_Witness ==
    /\ NumberMode
    /\ startNumber = <<5>>
    /\ parsed.err = ""
    /\ Len(parsed.URLs) = 4
    /\ parsed.URLs[4] = <<"seg-", "8", ".m4s">>

\* C29: the materialization succeeds only if exactly one of the placeholders
\* $Time$ and $Number$ appears in the media template.
C29_ExactlyOnePlaceholder ==
    (parsePc = "returned" /\ parsed.err = "") =>
        (Contains(media, "$Time$") # Contains(media, "$Number$"))

\* C30: an entry with a duration up to the largest uint32 is stored without
\* change of value, and an entry with a larger duration makes the call fail:
\* no stored duration is a truncated value.
C30_NoTruncatedDuration ==
    parsePc = "returned" =>
        /\ (\E i \in 1..Len(timeline) : timeline[i].d > MaxUint32) => parsed.err # ""
        /\ parsed.err = "" =>
             \A k \in 1..Len(parsed.SegmentDurations) :
                \E i \in 1..Len(timeline) : parsed.SegmentDurations[k] = timeline[i].d
        /\ (parsed.err = "" /\ Contains(media, "$Time$")) =>
             parsed.SegmentDurations = [i \in 1..Len(timeline) |-> timeline[i].d]

\* a duration of exactly the largest uint32 has been stored
C30_Witness ==
    /\ parsePc = "returned"
    /\ parsed.err = ""
    /\ \E k \in 1..Len(parsed.SegmentDurations) : parsed.SegmentDurations[k] = MaxUint32

\* ---------------------------------------------------------------------------
\* The registry of the Manager and the dispatch of its operations
\* (service.go: NewManager, register, matchURL, ExtractURLs, Extract,
\* extractVariants, fingerprint)
\* ---------------------------------------------------------------------------

\* what a constructor returns: a client with its id and the interfaces it
\* implements, as a set of capabilities
Constructors ==
    [id : ServiceIDs,
     caps : {{"variants", "fingerprint"}, {"urls"}, {"video", "variants"}, Capabilities}]

\* the URLs handed to Manager.Extract, as sequences of pieces
TestURLs ==
    {<<"https://www.", "svtplay.se/video/abc">>,
     <<"https://www.", "svtplay.se/video/abc", "?ref=", "amazon.com/dp/B0">>,
     <<"https://play.", "max.com/movies/a/b">>,
     <<"https://example.org/">>}

\* Matches of each service: its regular expression, which is not anchored,
\* finds a match somewhere in the URL
Matches(id, url) ==
    CASE id = "amazon" -> Contains(url, "amazon.com/dp/B0")
      [] id = "max"    -> Contains(url, "max.com/movies/a/b")
      [] id = "svt"    -> Contains(url, "svtplay.se/video/abc")
      [] OTHER         -> FALSE

\* the id is entered in every capability map
IndexedAlways(index, c, cap) == index \cup {c.id}

\* register: the id is entered in the map of a capability when the client
\* implements the interface
Indexed(index, c, cap) == IF cap \in c.caps THEN index \cup {c.id} ELSE index

\* NewManager: the maps are made and the default service is registered
InitRegistry ==
    /\ CoreIdle
    /\ RefIdle /\ ParseIdle /\ TransportIdle
    /\ clients = [id \in ServiceIDs |->
                    IF id = "default"
                    THEN [present |-> TRUE, caps |-> {"variants", "fingerprint"}]
                    ELSE [present |-> FALSE, caps |-> {}]]
    /\ regOrder = <<"default">>
    /\ indexes = [cap \in Capabilities |->
                    Indexed({}, [id |-> "default", caps |-> {"variants", "fingerprint"}], cap)]
    /\ lastOp = NoOp
    /\ fatal = FALSE

\* Manager.Register: an id registered before ends the process
Register ==
    /\ ~fatal
    /\ Len(regOrder) <= MaxRegs
    /\ \E c \in Constructors :
         IF clients[c.id].present
         THEN fatal' = TRUE /\ UNCHANGED <<clients, regOrder, indexes>>
         ELSE /\ clients' = [clients EXCEPT ![c.id] = [present |-> TRUE, caps |-> c.caps]]
              /\ regOrder' = Append(regOrder, c.id)
              /\ indexes' = [cap \in Capabilities |-> Indexed(indexes[cap], c, cap)]
              /\ UNCHANGED fatal
    /\ lastOp' = NoOp
    /\ UNCHANGED <<coreVars, refVars, parseVars, transportVars>>

\* the capability map an operation looks its service up in
CapOf(op) ==
    CASE op = "ExtractURLs"     -> "urls"
      [] op = "extractVariants" -> "variants"
      [] op = "fingerprint"     -> "fingerprint"

\* ExtractURLs, extractVariants, fingerprint for a service: an error when the
\* service is not in the map, else the service is invoked and may fail itself
ServiceOp ==
    /\ ~fatal
    /\ \E op \in {"ExtractURLs", "extractVariants", "fingerprint"},
          service \in ServiceIDs, fails \in BOOLEAN :
         lastOp' = IF service \in indexes[CapOf(op)]
                   THEN [op |-> op, arg |-> <<service>>, err |-> fails, invoked |-> service]
                   ELSE [op |-> op, arg |-> <<service>>, err |-> TRUE, invoked |-> ""]
    /\ UNCHANGED <<clients, regOrder, indexes, fatal>>
    /\ UNCHANGED <<coreVars, refVars, parseVars, transportVars>>

\* the ids matchURL may return: the range over the map of video extractors
\* visits them in an order the language leaves open, and the first one visited
\* that matches is returned
MatchURLResults(url) == {id \in indexes["video"] : Matches(id, url)}

\* Manager.Extract: matchURL, then VideoExtract of the service it returned
ExtractOp ==
    /\ ~fatal
    /\ \E url \in TestURLs :
         IF MatchURLResults(url) = {}
         THEN lastOp' = [op |-> "Extract", arg |-> url, err |-> TRUE, invoked |-> ""]
         ELSE \E id \in MatchURLResults(url), fails \in BOOLEAN :
                lastOp' = [op |-> "Extract", arg |-> url, err |-> fails, invoked |-> id]
    /\ UNCHANGED <<clients, regOrder, indexes, fatal>>
    /\ UNCHANGED <<coreVars, refVars, parseVars, transportVars>>

NextRegistry == Register \/ ServiceOp \/ ExtractOp

SpecRegistry == InitRegistry /\ [][NextRegistry]_vars

\* the registered video extractors that accept url, in registration order
AcceptingInOrder(url) ==
    SelectSeq(regOrder, LAMBDA id : "video" \in clients[id].caps /\ Matches(id, url))

\* C24: Manager.Extract dispatches to the first service, in registration
\* order, whose matcher accepts the URL; when none accepts, Extract fails and
\* no VideoExtract is invoked.
C24_FirstRegisteredMatch ==
    lastOp.op = "Extract" =>
        IF AcceptingInOrder(lastOp.arg) = <<>>
        THEN lastOp.err /\ lastOp.invoked = ""
        ELSE lastOp.invoked = Head(AcceptingInOrder(lastOp.arg))

\* C25: a service id is in the map of a capability exactly when the registered
\* service implements it, every id in a map is a registered client, and an
\* operation asked of a service that lacks the capability returns an error
\* without invoking any service.
C25_CapabilityIndex ==
    /\ \A cap \in Capabilities :
         indexes[cap] = {id \in ServiceIDs : clients[id].present /\ cap \in clients[id].caps}
    /\ \A id \in ServiceIDs : clients[id].present <=> (\E i \in 1..Len(regOrder) : regOrder[i] = id)
    /\ lastOp.op \in {"ExtractURLs", "extractVariants", "fingerprint"} =>
         IF CapOf(lastOp.op) \in clients[lastOp.arg[1]].caps
         THEN lastOp.invoked = lastOp.arg[1]
         ELSE lastOp.err /\ lastOp.invoked = ""

\* ExtractURLs was asked of a registered service that extracts no URLs
C25_Witness ==
    /\ lastOp.op = "ExtractURLs"
    /\ clients[lastOp.arg[1]].present
    /\ "urls" \notin clients[lastOp.arg[1]].caps
    /\ lastOp.err
    /\ Len(regOrder) >= 3

(***************************************************************************)
(* The HTTP transport wrapper: customRoundTripper.RoundTrip and the        *)
(* token-bucket limiter of the request's host.                             *)
(***************************************************************************)

\* rate.NewLimiter(rate.Limit(2), 2): the burst of the limiter of www.amazon.com
Burst == 2

\* contexts a request is made with: context.Background-derived, or derived
\* with context.WithTimeout as the HEAD requests of the fingerprinter are
RequestContexts == {"live", "deadline"}

\* wrapRoundTripper: the wrapper with the limiters of the configuration; the
\* bucket of a new limiter is full
InitTransport ==
    /\ CoreIdle
    /\ RefIdle /\ ParseIdle /\ RegistryIdle
    /\ limited \in BOOLEAN
    /\ bucket = Burst
    /\ reqCtx \in [Requests -> RequestContexts]
    /\ reqPc = [r \in Requests |-> "new"]
    /\ holds = {}

\* RoundTrip up to the lookup of the limiter of the request's host
RoundTripStart(r) ==
    /\ reqPc[r] = "new"
    /\ reqPc' = [reqPc EXCEPT ![r] = IF limited THEN "wait" ELSE "forward"]
    /\ UNCHANGED <<limited, bucket, reqCtx, holds>>
    /\ UNCHANGED <<coreVars, refVars, parseVars, registryVars>>

\* limiter.Wait returns nil: the request took a token
WaitOk(r) ==
    /\ reqPc[r] = "wait"
    /\ reqCtx[r] # "cancelled"
    /\ bucket > 0
    /\ bucket' = bucket - 1
    /\ holds' = holds \cup {r}
    /\ reqPc' = [reqPc EXCEPT ![r] = "forward"]
    /\ UNCHANGED <<limited, reqCtx>>
    /\ UNCHANGED <<coreVars, refVars, parseVars, registryVars>>

\* limiter.Wait returns an error and no token is taken: the context is
\* cancelled, or the wait for the next token would exceed its deadline
WaitFails(r) ==
    \/ reqCtx[r] = "cancelled"
    \/ reqCtx[r] = "deadline" /\ bucket = 0

\* RoundTrip after limiter.Wait returned an error: the error is dropped
WaitErr(r) ==
    /\ reqPc[r] = "wait"
    /\ WaitFails(r)
    /\ reqPc' = [reqPc EXCEPT ![r] = "forward"]
    /\ UNCHANGED <<limited, bucket, reqCtx, holds>>
    /\ UNCHANGED <<coreVars, refVars, parseVars, registryVars>>

\* return rt.RoundTripper.RoundTrip(req)
Forward(r) ==
    /\ reqPc[r] = "forward"
    /\ reqPc' = [reqPc EXCEPT ![r] = "sent"]
    /\ UNCHANGED <<limited, bucket, reqCtx, holds>>
    /\ UNCHANGED <<coreVars, refVars, parseVars, registryVars>>

\* the context of a request that has not passed the limiter is cancelled
CancelRequest(r) ==
    /\ reqPc[r] \in {"new", "wait"}
    /\ reqCtx[r] # "cancelled"
    /\ reqCtx' = [reqCtx EXCEPT ![r] = "cancelled"]
    /\ UNCHANGED <<limited, bucket, reqPc, holds>>
    /\ UNCHANGED <<coreVars, refVars, parseVars, registryVars>>

\* time passes: the limiter gains a token, up to its burst
Refill ==
    /\ limited
    /\ bucket < Burst
    /\ bucket' = bucket + 1
    /\ UNCHANGED <<limited, reqCtx, reqPc, holds>>
    /\ UNCHANGED <<coreVars, refVars, parseVars, registryVars>>

NextTransport ==
    \/ \E r \in Requests :
         RoundTripStart(r) \/ WaitOk(r) \/ WaitErr(r) \/ Forward(r) \/ CancelRequest(r)
    \/ Refill

SpecTransport == InitTransport /\ [][NextTransport]_vars

\* the requests handed to the underlying transport
Forwarded == {r \in Requests : reqPc[r] \in {"forward", "sent"}}

\* C26: for a host with a limiter, every request the wrapper forwards to the
\* underlying transport has taken a token from the limiter first, so the
\* forwarded requests never outnumber the tokens granted.
C26_ForwardedHoldToken ==
    limited => /\ Forwarded \subseteq holds
               /\ Cardinality(Forwarded) <= Cardinality(holds)

\* ---------------------------------------------------------------------------
\* Variant extraction in detail: the periods and representations of an MPD,
\* the variantGroup that files them, its merge, and the segments of an HLS
\* media playlist (variantextractor.go). Two runs of the same extraction are
\* followed side by side; they differ in their random $Server$ choices only.
\* ---------------------------------------------------------------------------

MaxAdds == 2
MaxPeriods == 2
MaxPlaylist == 3

\* reference.Servers
Servers == <<"s1", "s2">>

\* reference.URL: the manifest URL with its $Server$ placeholders
ReferenceURLs ==
    {<<"https://", "$Server$", ".akamaized.net/", "m.mpd">>,
     <<"https://", "$Server$", ".akamaized.net/", "$Server$", "/", "m.mpd">>}

\* a Representation with a SegmentBase: the BaseURL of the file and the
\* index range
SegmentBase(bandwidth, file, indexRange) ==
    [Bandwidth |-> bandwidth, type |-> "base", BaseURL |-> <<file>>,
     IndexRange |-> indexRange, Media |-> <<>>, S |-> <<>>]

\* a Representation with a SegmentTemplate and its SegmentTimeline
SegmentTemplate(bandwidth, template, entries) ==
    [Bandwidth |-> bandwidth, type |-> "template", BaseURL |-> <<>>,
     IndexRange |-> "", Media |-> template, S |-> entries]

\* the Representations of the video AdaptationSets; the last one has a
\* SegmentList
Representations ==
    {SegmentBase(1000, "a.mp4", "0-99"),
     SegmentBase(3000, "a.mp4", "0-49"),
     SegmentBase(MaxUint32, "a.mp4", "0-99"),
     SegmentTemplate(1000, <<"a-", "$Number$", ".m4s">>, <<[t |-> <<>>, d |-> 7, r |-> 1]>>),
     SegmentTemplate(3000, <<"a-", "$Number$", ".m4s">>, <<[t |-> <<>>, d |-> 9, r |-> 0]>>),
     SegmentTemplate(MaxUint32, <<"a-", "$Number$", ".m4s">>, <<[t |-> <<>>, d |-> 9, r |-> 0]>>),
     SegmentTemplate(1000, <<"b-", "$Time$", ".m4s">>, <<[t |-> <<100>>, d |-> 7, r |-> 0]>>),
     [Bandwidth |-> 1000, type |-> "list", BaseURL |-> <<>>, IndexRange |-> "",
      Media |-> <<>>, S |-> <<>>]}

\* the periods of an MPD: the duration in seconds and the values of the
\* SupplementalProperties, letter by letter
Periods ==
    {[d |-> 1, props |-> <<>>],
     [d |-> 2, props |-> <<>>],
     [d |-> 2, props |-> << <<"a", "d">> >>],
     [d |-> 1, props |-> << <<"A", "D">> >>],
     [d |-> 2, props |-> << <<"x">>, <<"A", "d">> >>],
     [d |-> 1, props |-> << <<"a", "d", "s">> >>]}

\* strings.ToLower
ToLower(str) ==
    [i \in 1..Len(str) |->
        CASE str[i] = "A" -> "a"
          [] str[i] = "D" -> "d"
          [] str[i] = "S" -> "s"
          [] OTHER -> str[i]]

\* a period counts as an advertisement only when a value is "ad" as written
IsAdExact(props) == \E i \in 1..Len(props) : props[i] = <<"a", "d">>

\* extractMPDVariants: a property whose value is "ad" in lower case
IsAd(props) == \E i \in 1..Len(props) : ToLower(props[i]) = <<"a", "d">>

\* resolveReference for a relative reference without dot segments: the last
\* segment of the base path is replaced by the reference
resolveReference(baseURL, ref) == SubSeq(baseURL, 1, Len(baseURL) - 1) \o ref

\* resolveBaseURLTypes
resolveBaseURLTypes(baseURL, uTypes) ==
    IF uTypes = <<>> THEN baseURL ELSE resolveReference(baseURL, uTypes)

\* extractMPDVariant for representation r of period number n, with the random
\* server number draw
extractVariant(u, r, n, draw) ==
    LET a == r
        v == [err |-> "",
              ID |-> computeID("video/mp4", "avc1", 640, 360, r.Bandwidth),
              MimeType |-> "video/mp4", Codecs |-> "avc1", Width |-> 640, Height |-> 360,
              Bandwidth |-> r.Bandwidth,
              AddressingMode |-> "", URL |-> <<>>, IndexRange |-> "",
              TemplateURL |-> <<>>, URLs |-> <<>>, SegmentDurations |-> <<>>,
              Period |-> n]
    IN CASE a.type = "base" ->
              [v EXCEPT !.AddressingMode = "indexed",
                        !.URL = Replace(resolveBaseURLTypes(u, a.BaseURL), "$Server$",
                                        <<Servers[draw]>>),
                        !.IndexRange = a.IndexRange]
         [] a.type = "template" ->
              LET template == resolveReference(u, a.Media)
                  explicit == parseMPDExplicitAddressingInfo(template, <<>>, a.S)
              IN [v EXCEPT !.err = explicit.err,
                           !.AddressingMode = "explicit",
                           !.TemplateURL = template,
                           !.URLs = explicit.URLs,
                           !.SegmentDurations = explicit.SegmentDurations]
         [] OTHER -> [v EXCEPT !.err = "segment list not implemented"]

\* variantGroup.add: the key of a variant
KeyOf(v) == IF v.AddressingMode = "indexed" THEN v.URL ELSE v.TemplateURL

\* variantGroup.add
add(g, v, d) ==
    LET k == KeyOf(v)
        known == k \in DOMAIN g.variants
        total == (IF known THEN g.durations[k] ELSE 0) + d
    IN [variants |-> IF known THEN [g.variants EXCEPT ![k] = Append(@, v)]
                     ELSE g.variants @@ (k :> <<v>>),
        durations |-> IF known THEN [g.durations EXCEPT ![k] = total]
                      ELSE g.durations @@ (k :> total),
        maxDuration |-> IF total > g.maxDuration THEN total ELSE g.maxDuration]

\* no group is skipped
NeverShorter(total, longest) == FALSE

\* merge: a group is skipped when it is not present for as long as the longest
Shorter(total, longest) == total < longest

\* the sum of the bandwidths is kept in 32 bits
AddBandwidth32(sum, bandwidth) == (sum + bandwidth) % (MaxUint32 + 1)

\* merge: sum += int64(v.Bandwidth)
AddBandwidth(sum, bandwidth) == sum + bandwidth

\* the URLs of a later period are put in front
PrependURLs(urls, v) == v.URLs \o urls

\* merge: *urls = append(*urls, v.ExplicitAddressingInfo.URLs...)
ExtendURLs(urls, v) == urls \o v.URLs

\* the durations of the later periods are left out
KeepDurations(durs, v) == durs

\* merge: *durs = append(*durs, v.ExplicitAddressingInfo.SegmentDurations...)
ExtendDurations(durs, v) == durs \o v.SegmentDurations

\* merge: the loop over vs[1:], from position i on, with the copy m of vs[0]
\* and the running sum
RECURSIVE MergeFrom(_, _, _, _)
MergeFrom(vs, i, m, sum) ==
    IF i > Len(vs)
    THEN LET bandwidth == ToUint32(sum \div Len(vs))
         IN [m EXCEPT !.Bandwidth = bandwidth, !.ID = MergedID(m, bandwidth)]
    ELSE MergeFrom(vs, i + 1,
                   IF m.AddressingMode = "explicit"
                   THEN [m EXCEPT !.URLs = ExtendURLs(@, vs[i]),
                                  !.SegmentDurations = ExtendDurations(@, vs[i])]
                   ELSE m,
                   AddBandwidth(sum, vs[i].Bandwidth))

\* merge: the variant of one group
mergeVariants(vs) == MergeFrom(vs, 2, vs[1], vs[1].Bandwidth)

\* merge: the keys whose group is not skipped
Kept(g) == {k \in DOMAIN g.variants : ~Shorter(g.durations[k], g.maxDuration)}

\* merge, ranging over the map of groups in the order o
merge(g, o) == [i \in 1..Len(o) |-> mergeVariants(g.variants[o[i]])]

\* the segments of a media playlist: the URI, the length of the byte range
\* (<<>> when the segment has none) and the duration in milliseconds
MediaSegments ==
    [URI : {<<"seg.ts">>}, ByteRangeLength : {<<>>, <<500>>},
     Duration : {4000, 6000, MaxUint32 + 1}]

\* extractM3U8Variant: the loop over the segments of the media playlist from
\* position i on; sized is the fingerprint and explicit the addressing info that
\* are being accumulated
RECURSIVE MediaFrom(_, _, _, _, _, _)
MediaFrom(u, segs, i, isIndexed, sized, explicit) ==
    IF i > Len(segs)
    THEN IF isIndexed
         THEN [err |-> "", AddressingMode |-> "fingerprinted",
               URLs |-> <<>>, SegmentDurations |-> <<>>,
               SegmentSizes |-> sized.SegmentSizes,
               FingerprintDurations |-> sized.SegmentDurations, Timescale |-> 1000]
         ELSE [err |-> "", AddressingMode |-> "explicit",
               URLs |-> explicit.URLs, SegmentDurations |-> explicit.SegmentDurations,
               SegmentSizes |-> <<>>, FingerprintDurations |-> <<>>, Timescale |-> 1000]
    ELSE IF segs[i].Duration > MaxUint32
    THEN [NoVariant EXCEPT !.err = "segment duration > uint32"]
    ELSE IF segs[i].ByteRangeLength # <<>>
    THEN IF segs[i].ByteRangeLength[1] > MaxUint32
         THEN [NoVariant EXCEPT !.err = "segment size > uint32"]
         ELSE MediaFrom(u, segs, i + 1, TRUE,
                        [SegmentSizes |-> Append(sized.SegmentSizes,
                                                 ToUint32(segs[i].ByteRangeLength[1])),
                         SegmentDurations |-> Append(sized.SegmentDurations,
                                                     ToUint32(segs[i].Duration))],
                        explicit)
    ELSE MediaFrom(u, segs, i + 1, isIndexed, sized,
                   [URLs |-> Append(explicit.URLs, resolveReference(u, segs[i].URI)),
                    SegmentDurations |-> Append(explicit.SegmentDurations,
                                                ToUint32(segs[i].Duration))])

\* extractM3U8Variant on the media playlist segs fetched from u
extractMediaPlaylist(u, segs) ==
    MediaFrom(u, segs, 1, FALSE,
              [SegmentSizes |-> <<>>, SegmentDurations |-> <<>>],
              [URLs |-> <<>>, SegmentDurations |-> <<>>])

\* nothing else of the program is active
SettledIdle ==
    /\ PipelineIdle /\ ExplicitIdle /\ ManifestIdle /\ MainIdle
    /\ RefIdle /\ ParseIdle /\ RegistryIdle /\ TransportIdle /\ ShutdownIdle

settledVars ==
    <<appVars, urlVars, vidVars, explicitVars, manifestVars, mainVars,
      refVars, parseVars, registryVars, transportVars, shutdownPc>>

\* extractMPDVariants and extractM3U8Variants up to the fetch of the manifest:
\* the first $Server$ of the reference URL is replaced by a random server
InitPeriods ==
    /\ SettledIdle
    /\ ProducerIdle
    /\ \E ref \in ReferenceURLs, draws \in [Runs -> 1..Len(Servers)] :
         manifestURL = [run \in Runs |-> Replace(ref, "$Server$", <<Servers[draws[run]]>>)]
    /\ periodLog = <<>>
    /\ vg = [run \in Runs |-> newVariantGroup]
    /\ mergeResult = [run \in Runs |-> <<>>]
    /\ hlsVariant = NoVariant
    /\ \/ pdPc = "periods" /\ playlist = <<>>
       \/ /\ pdPc = "playlist"
          /\ playlist \in UNION {[1..n -> MediaSegments] : n \in 0..MaxPlaylist}

\* the number of variants added to a variantGroup
RECURSIVE Added(_, _)
Added(g, keys) ==
    IF keys = {} THEN 0
    ELSE LET k == CHOOSE x \in keys : TRUE
         IN Len(g.variants[k]) + Added(g, keys \ {k})

\* extractMPDVariants: the next period of the loop; a period with an "ad"
\* property is skipped
StartPeriod ==
    /\ pdPc = "periods"
    /\ Len(periodLog) < MaxPeriods
    /\ \E p \in Periods :
         /\ periodLog' = Append(periodLog, p)
         /\ pdPc' = IF IsAd(p.props) THEN "periods" ELSE "period"
    /\ UNCHANGED <<manifestURL, vg, mergeResult, playlist, hlsVariant>>
    /\ UNCHANGED <<settledVars, producerVars>>

\* extractMPDVariants: the next representation of the period is extracted and
\* added to the group with the duration of the period; an error ends the call
Representation ==
    /\ pdPc = "period"
    /\ Added(vg[1], DOMAIN vg[1].variants) < MaxAdds
    /\ \E r \in Representations, draws \in [Runs -> 1..Len(Servers)] :
         LET n == Len(periodLog)
             v == [run \in Runs |-> extractVariant(manifestURL[run], r, n, draws[run])]
         IN IF v[1].err # ""
            THEN pdPc' = "error" /\ UNCHANGED vg
            ELSE /\ vg' = [run \in Runs |-> add(vg[run], v[run], periodLog[n].d)]
                 /\ UNCHANGED pdPc
    /\ UNCHANGED <<manifestURL, periodLog, mergeResult, playlist, hlsVariant>>
    /\ UNCHANGED <<settledVars, producerVars>>

\* the representations of the period are exhausted
EndPeriod ==
    /\ pdPc = "period"
    /\ pdPc' = "periods"
    /\ UNCHANGED <<manifestURL, periodLog, vg, mergeResult, playlist, hlsVariant>>
    /\ UNCHANGED <<settledVars, producerVars>>

\* extractMPDVariants after the last period: group.merge, and an error when it
\* returns nothing
MergeGroups ==
    /\ pdPc = "periods"
    /\ \E o1 \in Orders(Kept(vg[1])), o2 \in Orders(Kept(vg[2])) :
         mergeResult' = [run \in Runs |-> merge(vg[run], IF run = 1 THEN o1 ELSE o2)]
    /\ pdPc' = IF Len(mergeResult'[1]) > 0 THEN "merged" ELSE "empty"
    /\ UNCHANGED <<manifestURL, periodLog, vg, playlist, hlsVariant>>
    /\ UNCHANGED <<settledVars, producerVars>>

\* extractM3U8Variant on the fetched media playlist
ExtractPlaylist ==
    /\ pdPc = "playlist"
    /\ hlsVariant' = extractMediaPlaylist(manifestURL[1], playlist)
    /\ pdPc' = IF hlsVariant'.err # "" THEN "error" ELSE "returned"
    /\ UNCHANGED <<manifestURL, periodLog, vg, mergeResult, playlist>>
    /\ UNCHANGED <<settledVars, producerVars>>

NextPeriods ==
    StartPeriod \/ Representation \/ EndPeriod \/ MergeGroups \/ ExtractPlaylist

SpecPeriods == InitPeriods /\ [][NextPeriods]_vars

\* an explicit-addressing variant has as many URLs as segment durations
ListsMatch(v) == v.AddressingMode = "explicit" => Len(v.URLs) = Len(v.SegmentDurations)

\* C31: every explicit-addressing variant has as many URLs as segment
\* durations: the variants materialized from a DASH SegmentTemplate ($Time$
\* and $Number$), the variant of an HLS media playlist, and the variants that
\* merge returns after concatenating the lists of the periods.
C31_URLsMatchDurations ==
    /\ \A run \in Runs :
         /\ \A k \in DOMAIN vg[run].variants :
              \A i \in 1..Len(vg[run].variants[k]) : ListsMatch(vg[run].variants[k][i])
         /\ \A i \in 1..Len(mergeResult[run]) : ListsMatch(mergeResult[run][i])
    /\ ListsMatch(hlsVariant)

\* merge has returned an explicit variant whose lists come from two periods
C31_Witness ==
    /\ pdPc = "merged"
    /\ \E i \in 1..Len(mergeResult[1]) :
         LET m == mergeResult[1][i]
         IN /\ m.AddressingMode = "explicit"
            /\ Len(vg[1].variants[KeyOf(m)]) = 2
            /\ Len(m.URLs) = 3
            /\ Len(m.SegmentDurations) = 3

\* the total duration of the periods the first n variants of a group came from
RECURSIVE PeriodTotal(_, _)
PeriodTotal(vs, n) ==
    IF n = 0 THEN 0 ELSE PeriodTotal(vs, n - 1) + periodLog[vs[n].Period].d

\* the total period duration of the group filed under k
GroupTotal(g, k) == PeriodTotal(g.variants[k], Len(g.variants[k]))

\* the groups with the largest total period duration
Longest(g) ==
    {k \in DOMAIN g.variants : \A j \in DOMAIN g.variants : GroupTotal(g, j) <= GroupTotal(g, k)}

\* C32: merge returns one variant for exactly the groups whose total period
\* duration is the largest over all groups and none for a group with a smaller
\* total; after at least one add it returns at least one variant.
C32_LongestGroupsSurvive ==
    pdPc \in {"merged", "empty"} =>
        \A run \in Runs :
            /\ {KeyOf(mergeResult[run][i]) : i \in 1..Len(mergeResult[run])} = Longest(vg[run])
            /\ Len(mergeResult[run]) = Cardinality(Longest(vg[run]))
            /\ DOMAIN vg[run].variants # {} => Len(mergeResult[run]) >= 1

\* of two groups, merge returned the longer one only
C32_Witness ==
    /\ pdPc = "merged"
    /\ Cardinality(DOMAIN vg[1].variants) = 2
    /\ Len(mergeResult[1]) = 1
    /\ \E k \in DOMAIN vg[1].variants : GroupTotal(vg[1], k) < vg[1].maxDuration

\* the group a merged variant was made from
GroupOf(g, m) == g.variants[KeyOf(m)]

\* C33: the bandwidth of a merged variant is the integer mean
\* floor(sum of the bandwidths of its group / number of variants), exact for
\* any uint32 bandwidths, and its ID is recomputed from the mean whenever the
\* mean differs from the bandwidth of the first variant of the group.
C33_MeanBandwidth ==
    pdPc = "merged" =>
        \A run \in Runs : \A i \in 1..Len(mergeResult[run]) :
            LET m == mergeResult[run][i]
                vs == GroupOf(vg[run], m)
            IN /\ m.Bandwidth = SumBandwidth(vs, Len(vs)) \div Len(vs)
               /\ m.ID = IF m.Bandwidth # vs[1].Bandwidth
                         THEN computeID(m.MimeType, m.Codecs, m.Width, m.Height, m.Bandwidth)
                         ELSE vs[1].ID

\* two periods with bandwidths 1000 and 3000 were merged into a variant of
\* bandwidth 2000 with a recomputed ID
C33_Witness ==
    /\ pdPc = "merged"
    /\ \E i \in 1..Len(mergeResult[1]) :
         LET m == mergeResult[1][i]
             vs == GroupOf(vg[1], m)
         IN /\ Len(vs) = 2
            /\ vs[1].Bandwidth = 1000
            /\ vs[2].Bandwidth = 3000
            /\ vs[1].Period # vs[2].Period
            /\ m.Bandwidth = 2000
            /\ m.ID # vs[1].ID

\* the URLs of the first n variants of a group, one period after the other
RECURSIVE PeriodURLs(_, _)
PeriodURLs(vs, n) == IF n = 0 THEN <<>> ELSE PeriodURLs(vs, n - 1) \o vs[n].URLs

\* the segment durations of the first n variants of a group
RECURSIVE PeriodSegmentDurations(_, _)
PeriodSegmentDurations(vs, n) ==
    IF n = 0 THEN <<>> ELSE PeriodSegmentDurations(vs, n - 1) \o vs[n].SegmentDurations

\* C34: the URLs and SegmentDurations of a merged explicit-addressing variant
\* are the lists of the variants of its group, concatenated in period order;
\* a merged indexed variant keeps the URL and the index range of the first
\* period and nothing is concatenated.
C34_ConcatenatedInPeriodOrder ==
    pdPc = "merged" =>
        \A run \in Runs : \A i \in 1..Len(mergeResult[run]) :
            LET m == mergeResult[run][i]
                vs == GroupOf(vg[run], m)
            IN /\ \A j \in 1..(Len(vs) - 1) : vs[j].Period <= vs[j + 1].Period
               /\ m.AddressingMode = vs[1].AddressingMode
               /\ m.AddressingMode = "explicit" =>
                    /\ m.URLs = PeriodURLs(vs, Len(vs))
                    /\ m.SegmentDurations = PeriodSegmentDurations(vs, Len(vs))
               /\ m.AddressingMode = "indexed" =>
                    /\ m.URL = vs[1].URL
                    /\ m.IndexRange = vs[1].IndexRange
                    /\ m.URLs = <<>>
                    /\ m.SegmentDurations = <<>>

\* an explicit variant merged from two periods with different segments
C34_Witness ==
    /\ pdPc = "merged"
    /\ \E i \in 1..Len(mergeResult[1]) :
         LET m == mergeResult[1][i]
             vs == GroupOf(vg[1], m)
         IN /\ m.AddressingMode = "explicit"
            /\ Len(vs) = 2
            /\ vs[1].Period < vs[2].Period
            /\ vs[1].SegmentDurations # vs[2].SegmentDurations
            /\ Len(m.URLs) = Len(vs[1].URLs) + Len(vs[2].URLs)

\* an indexed variant merged from two periods with different index ranges
C34_IndexedWitness ==
    /\ pdPc = "merged"
    /\ \E i \in 1..Len(mergeResult[1]) :
         LET m == mergeResult[1][i]
             vs == GroupOf(vg[1], m)
         IN /\ m.AddressingMode = "indexed"
            /\ Len(vs) = 2
            /\ vs[1].IndexRange # vs[2].IndexRange

\* the period has a SupplementalProperty whose value is "ad" in some letter case
AnyCaseAd(p) ==
    \E i \in 1..Len(p.props) :
        p.props[i] \in {<<"a", "d">>, <<"A", "d">>, <<"a", "D">>, <<"A", "D">>}

\* the largest of the group totals, 0 without groups
LargestTotal(g) ==
    IF DOMAIN g.variants = {} THEN 0
    ELSE GroupTotal(g, CHOOSE k \in Longest(g) : TRUE)

\* C35: a period with a SupplementalProperty whose value is "ad" in any letter
\* case contributes nothing: no variant of a group comes from it, and the
\* duration of every group and the largest group duration are made of the
\* durations of the other periods only.
C35_AdPeriodContributesNothing ==
    \A run \in Runs :
        /\ \A k \in DOMAIN vg[run].variants :
             /\ \A i \in 1..Len(vg[run].variants[k]) :
                  ~AnyCaseAd(periodLog[vg[run].variants[k][i].Period])
             /\ vg[run].durations[k] = GroupTotal(vg[run], k)
        /\ vg[run].maxDuration = LargestTotal(vg[run])
        /\ pdPc = "period" => ~AnyCaseAd(periodLog[Len(periodLog)])

\* an MPD whose first period is marked "AD" and whose second period gave the
\* only variant
C35_Witness ==
    /\ pdPc = "merged"
    /\ Len(periodLog) = 2
    /\ AnyCaseAd(periodLog[1])
    /\ ~IsAdExact(periodLog[1].props)
    /\ Len(mergeResult[1]) = 1
    /\ mergeResult[1][1].Period = 2

\* the (size, duration) pairs of the embedded fingerprint of the HLS variant
FingerprintPairs ==
    [i \in 1..Len(hlsVariant.SegmentSizes) |->
        <<hlsVariant.SegmentSizes[i], hlsVariant.FingerprintDurations[i]>>]

\* the (URL, duration) pairs of the explicit addressing info of the HLS variant
ExplicitPairs ==
    [i \in 1..Len(hlsVariant.URLs) |-> <<hlsVariant.URLs[i], hlsVariant.SegmentDurations[i]>>]

\* C36: the HLS variant is in mode fingerprinted exactly when the first
\* segment of its media playlist has a byte-range length, and explicit
\* otherwise; in fingerprinted mode every segment of the playlist gives one
\* (size, duration) pair of the fingerprint, with timescale 1000, and in
\* explicit mode every segment gives one (resolved URL, duration) pair.
C36_ModeByFirstSegment ==
    pdPc = "returned" =>
        /\ hlsVariant.AddressingMode =
             IF playlist # <<>> /\ playlist[1].ByteRangeLength # <<>>
             THEN "fingerprinted" ELSE "explicit"
        /\ hlsVariant.Timescale = 1000
        /\ hlsVariant.AddressingMode = "fingerprinted" =>
             FingerprintPairs =
                 [i \in 1..Len(playlist) |->
                     <<playlist[i].ByteRangeLength[1], playlist[i].Duration>>]
        /\ hlsVariant.AddressingMode = "explicit" =>
             ExplicitPairs =
                 [i \in 1..Len(playlist) |->
                     <<resolveReference(manifestURL[1], playlist[i].URI), playlist[i].Duration>>]

\* a URL with the name of the substituted server blanked out
Anonymous(url) ==
    [i \in 1..Len(url) |->
        IF \E j \in 1..Len(Servers) : url[i] = Servers[j] THEN "$Server$" ELSE url[i]]

\* what a run returned for one merged variant, up to the server names
Returned(m) ==
    [Bandwidth |-> m.Bandwidth, ID |-> m.ID, AddressingMode |-> m.AddressingMode,
     URL |-> Anonymous(m.URL), IndexRange |-> m.IndexRange,
     URLs |-> [i \in 1..Len(m.URLs) |-> Anonymous(m.URLs[i])],
     SegmentDurations |-> m.SegmentDurations]

\* the groups of a run: for each group, the periods and bandwidths of its
\* variants in the order they were added
Grouping(g) ==
    {[i \in 1..Len(g.variants[k]) |-> <<g.variants[k][i].Period, g.variants[k][i].Bandwidth>>] :
        k \in DOMAIN g.variants}

\* C39: the result of DASH variant extraction does not depend on the random
\* $Server$ choices: two runs on the same MPD and server list group the
\* variants of the periods identically and return the same number of merged
\* variants, with the same bandwidths, IDs and segment lists up to the name of
\* the substituted server.
C39_IndependentOfServerChoice ==
    /\ Grouping(vg[1]) = Grouping(vg[2])
    /\ pdPc = "merged" =>
         /\ Len(mergeResult[1]) = Len(mergeResult[2])
         /\ {Returned(mergeResult[1][i]) : i \in 1..Len(mergeResult[1])} =
            {Returned(mergeResult[2][i]) : i \in 1..Len(mergeResult[2])}

\* ---------------------------------------------------------------------------
\* The video producer of a service: the goroutine of extract, the goroutines
\* it starts with a WaitGroup, those they start in turn, and VideoExtract
\* ranging over the results channel (svt.go, max.go)
\* ---------------------------------------------------------------------------

\* the goroutines the producer may start
Senders == 1..MaxSenders

\* the producer's inline work (0) and the goroutines it may start
Workers == 0..MaxSenders

\* the goroutines a worker may start
Kids == 1..MaxKids

\* the number of goroutines worker i starts; none when it sends its one
\* result itself
Fanout(i) == IF i = 0 THEN prodPlan.inline ELSE prodPlan.fanout[i]

\* a send on the unbuffered results channel: VideoExtract receives it, or the
\* channel is closed and the send panics
SendResult(id) ==
    IF resultsClosed
    THEN sendPanic' = TRUE /\ UNCHANGED received
    ELSE /\ consumerPc = "ranging"
         /\ received' = received (+) SetToBag({id})
         /\ UNCHANGED sendPanic

\* extract: the channel is made and the producer goroutine is started. The
\* producer starts goroutines (the videos after the first of svt, the seasons
\* of max, the additional seasons of amazon) and works inline or not: it
\* sends one result (an error, a movie, the first video of svt) or runs a
\* season itself (amazon). A started goroutine sends one result or is a
\* season that starts one goroutine per episode
InitProducer ==
    /\ SettledIdle
    /\ PeriodIdle
    /\ prodPlan \in [own : BOOLEAN, inline : 0..MaxKids,
                     fanout : UNION {[1..n -> 0..MaxKids] : n \in 0..MaxSenders}]
    /\ ~prodPlan.own => prodPlan.inline = 0
    /\ prodPc = "spawn"
    /\ taskPc = [i \in Workers |-> "none"]
    /\ kidPc = [i \in Workers |-> [j \in Kids |-> "none"]]
    /\ topWg = 0
    /\ kidWg = [i \in Workers |-> 0]
    /\ resultsClosed = FALSE
    /\ received = EmptyBag
    /\ consumerPc = "ranging"
    /\ sendPanic = FALSE

\* sendVideos, sendSeries: wg.Add(1) and the next goroutine is started
Spawn(i) ==
    /\ prodPc = "spawn"
    /\ i <= Len(prodPlan.fanout)
    /\ taskPc[i] = "none"
    /\ \A j \in 1..(i - 1) : taskPc[j] # "none"
    /\ topWg' = topWg + 1
    /\ taskPc' = [taskPc EXCEPT ![i] = "run"]
    /\ UNCHANGED <<prodPlan, prodPc, kidPc, kidWg, resultsClosed, received, consumerPc,
                   sendPanic>>
    /\ UNCHANGED <<settledVars, periodVars>>

\* the loop that starts the goroutines has ended: the inline work follows
SpawnEnd ==
    /\ prodPc = "spawn"
    /\ \A i \in 1..Len(prodPlan.fanout) : taskPc[i] # "none"
    /\ prodPc' = IF prodPlan.own THEN "own" ELSE "wait"
    /\ taskPc' = [taskPc EXCEPT ![0] = IF prodPlan.own THEN "run" ELSE "none"]
    /\ UNCHANGED <<prodPlan, kidPc, topWg, kidWg, resultsClosed, received,
                   consumerPc, sendPanic>>
    /\ UNCHANGED <<settledVars, periodVars>>

\* the producer sends its own result
OwnSend ==
    /\ prodPc = "own"
    /\ taskPc[0] = "run"
    /\ Fanout(0) = 0
    /\ SendResult(<<0, 0>>)
    /\ prodPc' = "wait"
    /\ taskPc' = [taskPc EXCEPT ![0] = "done"]
    /\ UNCHANGED <<prodPlan, kidPc, topWg, kidWg, resultsClosed, consumerPc>>
    /\ UNCHANGED <<settledVars, periodVars>>

\* sendVideo, sendSeason on an error: the goroutine sends one result; its
\* deferred wg.Done runs
TaskSend(i) ==
    /\ taskPc[i] = "run"
    /\ Fanout(i) = 0
    /\ SendResult(<<i, 0>>)
    /\ taskPc' = [taskPc EXCEPT ![i] = "done"]
    /\ topWg' = topWg - 1
    /\ UNCHANGED <<prodPlan, prodPc, kidPc, kidWg, resultsClosed, consumerPc>>
    /\ UNCHANGED <<settledVars, periodVars>>

\* sendSeason: wg.Add(1) on the WaitGroup of the season and the goroutine of
\* the next episode is started; after the last one the season waits
TaskSpawn(i, j) ==
    /\ taskPc[i] = "run"
    /\ j <= Fanout(i)
    /\ kidPc[i][j] = "none"
    /\ \A k \in 1..(j - 1) : kidPc[i][k] # "none"
    /\ kidPc' = [kidPc EXCEPT ![i][j] = "send"]
    /\ kidWg' = [kidWg EXCEPT ![i] = @ + 1]
    /\ taskPc' = [taskPc EXCEPT ![i] = IF j = Fanout(i) THEN "wait" ELSE "run"]
    /\ UNCHANGED <<prodPlan, prodPc, topWg, resultsClosed, received, consumerPc, sendPanic>>
    /\ UNCHANGED <<settledVars, periodVars>>

\* the goroutine of an episode sends its result; its deferred wg.Done runs
KidSend(i, j) ==
    /\ kidPc[i][j] = "send"
    /\ SendResult(<<i, j>>)
    /\ kidPc' = [kidPc EXCEPT ![i][j] = "done"]
    /\ kidWg' = [kidWg EXCEPT ![i] = @ - 1]
    /\ UNCHANGED <<prodPlan, prodPc, taskPc, topWg, resultsClosed, consumerPc>>
    /\ UNCHANGED <<settledVars, periodVars>>

\* sendSeason: wg.Wait returns and the goroutine of the season ends; its
\* deferred wg.Done runs
TaskDone(i) ==
    /\ taskPc[i] = "wait"
    /\ kidWg[i] = 0
    /\ taskPc' = [taskPc EXCEPT ![i] = "done"]
    /\ topWg' = topWg - 1
    /\ UNCHANGED <<prodPlan, prodPc, kidPc, kidWg, resultsClosed, received, consumerPc,
                   sendPanic>>
    /\ UNCHANGED <<settledVars, periodVars>>

\* amazon sendSeries: the wg.Wait of the season the producer runs inline
\* returns
OwnDone ==
    /\ prodPc = "own"
    /\ taskPc[0] = "wait"
    /\ kidWg[0] = 0
    /\ taskPc' = [taskPc EXCEPT ![0] = "done"]
    /\ prodPc' = "wait"
    /\ UNCHANGED <<prodPlan, kidPc, topWg, kidWg, resultsClosed, received, consumerPc,
                   sendPanic>>
    /\ UNCHANGED <<settledVars, periodVars>>

\* the producer closes the channel without waiting
CloseWithoutWait == TRUE

\* sendVideos, sendSeries: wg.Wait() returns
WaitReturns == topWg = 0

\* the producer goroutine returns after wg.Wait: the deferred close(results)
ProducerClose ==
    /\ prodPc = "wait"
    /\ WaitReturns
    /\ resultsClosed' = TRUE
    /\ prodPc' = "exited"
    /\ UNCHANGED <<prodPlan, taskPc, kidPc, topWg, kidWg, received, consumerPc, sendPanic>>
    /\ UNCHANGED <<settledVars, periodVars>>

\* VideoExtract: the range over the closed channel ends and the results are
\* returned
ConsumerReturn ==
    /\ consumerPc = "ranging"
    /\ resultsClosed
    /\ consumerPc' = "returned"
    /\ UNCHANGED <<prodPlan, prodPc, taskPc, kidPc, topWg, kidWg, resultsClosed, received,
                   sendPanic>>
    /\ UNCHANGED <<settledVars, periodVars>>

NextProducer ==
    \/ \E i \in Senders : Spawn(i) \/ TaskSend(i) \/ TaskDone(i)
    \/ \E i \in Workers, j \in Kids : TaskSpawn(i, j) \/ KidSend(i, j)
    \/ SpawnEnd
    \/ OwnSend
    \/ OwnDone
    \/ ProducerClose
    \/ ConsumerReturn

SpecProducer == InitProducer /\ [][NextProducer]_vars

\* the workers of the plan of the producer
Planned == (IF prodPlan.own THEN {0} ELSE {}) \cup (1..Len(prodPlan.fanout))

\* the results the plan of the producer calls for
PlannedResults ==
    UNION {IF Fanout(i) = 0 THEN {<<i, 0>>} ELSE {<<i, j>> : j \in 1..Fanout(i)} : i \in Planned}

\* every goroutine that sends has sent
AllSent ==
    /\ prodPc \in {"wait", "exited"}
    /\ \A i \in Planned : taskPc[i] = "done"
    /\ \A i \in Planned : \A j \in 1..Fanout(i) : kidPc[i][j] = "done"

\* C38: the results channel is closed only after every sender goroutine has
\* finished, no goroutine sends on the closed channel, no goroutine stays
\* blocked (some step is possible until VideoExtract has returned), and
\* VideoExtract returns exactly the results that were sent, each once.
C38_ProducerClosesLast ==
    /\ resultsClosed => AllSent
    /\ ~sendPanic
    /\ consumerPc # "returned" => ENABLED NextProducer
    /\ \A id \in BagToSet(received) : CopiesIn(id, received) = 1
    /\ BagToSet(received) \subseteq PlannedResults
    /\ consumerPc = "returned" => BagToSet(received) = PlannedResults

\* VideoExtract has returned the results of a producer that ran a season of
\* two episodes inline and started two goroutines, one sending one result and
\* one a season of two episodes
C38_Witness ==
    /\ consumerPc = "returned"
    /\ prodPlan.own
    /\ prodPlan.inline = 2
    /\ Len(prodPlan.fanout) = 2
    /\ \E i, k \in Senders : prodPlan.fanout[i] = 2 /\ prodPlan.fanout[k] = 0
    /\ BagCardinality(received) = 5

====
